---- MODULE Spec2Model ----
(***************************************************************************)
(* PetStory: a model of the server endpoints, the library functions and    *)
(* the book-preview page.  Each part of the program has its own variables  *)
(* and its own specification (SpecGroup, ...); a specification leaves the  *)
(* variables of the other parts at their idle values.                      *)
(*                                                                         *)
(* Strings are sequences of character codes, so that toLowerCase is a      *)
(* computation on the characters.  The JavaScript value undefined is the   *)
(* one-element sequence <<0>>, which is no string over Alphabet.           *)
(***************************************************************************)
EXTENDS Integers, Sequences, FiniteSets, TLC

VARIABLES
    \* lib/photoAnalysis.ts, groupPhotosByTheme
    analyzedPhotos,   \* the argument: a sequence of analysed photos
    themes,           \* the returned Theme[]
    groupPc,          \* "input" before the call, "done" after it
    \* app/api/analyze-photos/route.ts, POST
    reqPhotos,        \* the request's photos
    batchStart,       \* the loop variable i (0-based start of the batch)
    visionCall,       \* per photo: the state of its mapper and of its vision call
    routeAnalyzed,    \* the route's analyzedPhotos
    analyzeResponse,  \* the response, "none" until it is returned
    analyzePc,        \* "loop": at the loop head; "await": in Promise.all; "done"
    \* app/api/stylize-images/route.ts, POST
    images,           \* the request's images
    style,            \* the request's style
    imgIndex,         \* the loop variable i (0-based)
    base64Data,       \* the local base64Data of the image being processed
    stylizeCall,      \* per image: the call to stylizeImage and what it sent
    delayBefore,      \* per image: a delay was waited just before its processing
    stylizedImages,   \* the route's stylizedImages
    stylizeResponse,  \* the response, NoResponse until it is returned
    stylizePc,        \* "loop", "compress", "await" (the race), "delay", "done"
    \* lib/services/openai-service.ts, generateStoryWithFallback and
    \* editStoryStyleWithFallback
    storyFn,          \* which of the two functions runs
    storyArgs,        \* its arguments: pet name, theme name, story text
    modelIdx,         \* the position of the for loop in modelsToTry (0-based)
    storyCalls,       \* the calls made so far, each with its model and outcome
    storyResult,      \* what the function returned or threw
    storyPc,          \* "loop", "call" (awaiting the model), "returned", "thrown"
    \* app/book-preview/page.tsx, BookPreviewPage
    mountId,          \* the number of the mounted page instance
    originalImages,   \* state originalImages: the ids of the theme's photos
    selectedStyle,    \* state selectedStyle
    isStylizing,      \* state isStylizing
    pageImages,       \* state stylizedImages: per style the stored entries
    pageError,        \* state error
    pendingPosts,     \* the POSTs to /api/stylize-images that have not returned
    postsSent,        \* how many POSTs were issued
    clicks,           \* how many times handleStyleChange ran
    clicked,          \* the style of its last run
    returnedOk,       \* the styles whose POST returned success to this instance
    \* app/api/stylize-with-variation/route.ts, POST, one run per request
    varRequest,       \* per request: the body's image and style
    varStamp,         \* per request: Date.now() at its start, naming its tempDir
    varPc,            \* per request: "start", "json", "sharp", "variation",
                      \* "generation", "done"
    tempDirs,         \* the stamps whose directory pet-stylize-<stamp> exists
    tempFiles,        \* the stamps whose directory holds input-image.png
    variationCalls,   \* per request: its createVariation call
    generationCalls,  \* per request: its images.generate call
    variationError,   \* per request: variationError.message
    varResponse,      \* per request: the response returned
    \* one browser tab: session storage and the pages of app/
    sessionStorage,   \* per key of the application: the stored item or Absent
    quota,            \* the size session storage can hold
    location,         \* the page of the tab
    pagePc,           \* "mounting" before the page's load effect, then its phase
    flowStage,        \* 1 after a submit, 2 after a theme selection following
                      \* it, 3 after a successful story generation following that
    visits,           \* how many times the user entered a URL
    files,            \* the user's photo files: how each one converts
    uuidCount,        \* how many session ids uuidv4() has produced
    selections,       \* how many times the photo selection changed
    selectedPhotos,   \* upload page, state photos: the ids of the selection
    petName,          \* upload page, state petName
    isUploading,      \* upload page, state isUploading
    uploadError,      \* upload page, state error
    outcomes,         \* convertPhotosToBase64: how each photo so far came out
    selectedTheme,    \* analysis page, state selectedTheme
    editorStory,      \* story editor, state story
    title,            \* story editor, state title
    pages,            \* story editor, state pages: the text of each page
    generating,       \* POSTs to /api/generate-story of the mounted editor
    orphaned,         \* POSTs to /api/generate-story of unmounted editors
    lastEdit,         \* what the mounted editor did last to its story
    \* lib/services/openai-service.ts, analyzeImageWithVision, one run
    visModel,         \* the index in modelsToTry of the model called
    visCalls,         \* how many models were called
    visReply,         \* the content of the reply that arrived
    visResult,        \* the value returned
    visPc,            \* "call", "returned", "thrown"
    \* app/api/stylize-images/route.ts, compressImage, one run
    metadata,         \* width and height Sharp reports, 0 for undefined
    resize,           \* resizeNeeded, and width and height after the calculation
    compressPc        \* "metadata", "calculated"

groupVars == <<analyzedPhotos, themes, groupPc>>
analyzeVars == <<reqPhotos, batchStart, visionCall, routeAnalyzed, analyzeResponse, analyzePc>>

stylizeVars ==
    <<images, style, imgIndex, base64Data, stylizeCall, delayBefore,
      stylizedImages, stylizeResponse, stylizePc>>

storyVars == <<storyFn, storyArgs, modelIdx, storyCalls, storyResult, storyPc>>

previewVars ==
    <<mountId, originalImages, selectedStyle, isStylizing, pageImages, pageError,
      pendingPosts, postsSent, clicks, clicked, returnedOk>>

variationVars ==
    <<varRequest, varStamp, varPc, tempDirs, tempFiles, variationCalls,
      generationCalls, variationError, varResponse>>

uploadVars ==
    <<files, uuidCount, selections, selectedPhotos, petName, isUploading, uploadError, outcomes>>

editorVars == <<editorStory, title, pages, generating, orphaned, lastEdit>>

tabVars ==
    <<sessionStorage, quota, location, pagePc, flowStage, visits, uploadVars,
      selectedTheme, editorVars>>

visionVars == <<visModel, visCalls, visReply, visResult, visPc>>

compressVars == <<metadata, resize, compressPc>>

vars ==
    <<groupVars, analyzeVars, stylizeVars, storyVars, previewVars, variationVars, tabVars,
      visionVars, compressVars>>

----------------------------------------------------------------------------
(* Bounds of the model *)

\* photos of one groupPhotosByTheme call with varied holiday/occasion/location
MaxPhotos == 3
\* photos of one groupPhotosByTheme call that all fall in one theme
MaxThemePhotos == 4
\* photos of one analyze-photos request
MaxRequestPhotos == 4
\* images of one stylize-images request
MaxImages == 3
\* photos of the theme shown by the book-preview page
MaxPageImages == 2
\* runs of handleStyleChange, and page instances, in one behaviour
MaxClicks == 4
MaxMounts == 2
\* concurrent requests to stylize-with-variation, and values of Date.now()
MaxVarRequests == 2
MaxStamps == 2
\* photos of one selection on the upload page, and selections in one behaviour
MaxSelected == 4
MaxSelections == 1
\* photo files of the user who goes through all the pages
MaxFlowFiles == 2
\* session ids produced in one behaviour
MaxSubmits == 2
\* URLs the user enters in the tab in one behaviour
MaxVisits == 1
\* characters of the story title, and story generations in flight
MaxTitleLen == 2
MaxGenerating == 1
\* parts of a vision model's reply
MaxReplyParts == 2
\* images of a stylize-images request whose every behaviour is followed to its end
MaxFairImages == 2

----------------------------------------------------------------------------
(* Strings *)

Undefined == <<0>>

\* "unknown"
UnknownStr == <<117, 110, 107, 110, 111, 119, 110>>

\* String.prototype.toLowerCase on ASCII: 'A'..'Z' (65..90) map to 'a'..'z'
ToLowerChar(c) == IF c \in 65..90 THEN c + 32 ELSE c

ToLowerCase(s) == [i \in DOMAIN s |-> ToLowerChar(s[i])]

\* JavaScript truthiness of an optional string: undefined and "" are falsy
Truthy(v) == v # Undefined /\ v # <<>>

\* v?.toLowerCase()
OptLower(v) == IF v = Undefined THEN Undefined ELSE ToLowerCase(v)

\* a || b on (optional) strings
OrElse(a, b) == IF Truthy(a) THEN a ELSE b

----------------------------------------------------------------------------
(* lib/photoAnalysis.ts *)

\* counts[item] after the loop of findMostCommon has handled arr[1..i]
CountUpTo(arr, i, item) == Cardinality({j \in 1..i : arr[j] = item})

\* findMostCommon with >= for >: the last value to reach the maximum wins
RECURSIVE MutFindMostCommonLoop(_, _, _, _)
MutFindMostCommonLoop(arr, i, maxCount, mostCommon) ==
    IF i > Len(arr) THEN mostCommon
    ELSE IF CountUpTo(arr, i, arr[i]) >= maxCount
         THEN MutFindMostCommonLoop(arr, i + 1, CountUpTo(arr, i, arr[i]), arr[i])
         ELSE MutFindMostCommonLoop(arr, i + 1, maxCount, mostCommon)

\* the loop of findMostCommon from index i on, with the loop's state
RECURSIVE FindMostCommonLoop(_, _, _, _)
FindMostCommonLoop(arr, i, maxCount, mostCommon) ==
    IF i > Len(arr) THEN mostCommon
    ELSE IF CountUpTo(arr, i, arr[i]) > maxCount
         THEN FindMostCommonLoop(arr, i + 1, CountUpTo(arr, i, arr[i]), arr[i])
         ELSE FindMostCommonLoop(arr, i + 1, maxCount, mostCommon)

FindMostCommon(arr) ==
    FindMostCommonLoop(arr, 1, 0,
                       IF arr = <<>> THEN UnknownStr ELSE OrElse(arr[1], UnknownStr))

IsHolidayPhoto(p) == Truthy(p.holiday)
\* the occasion filter without its !p.holiday
MutIsOccasionPhoto(p) == Truthy(p.occasion)
IsOccasionPhoto(p) == Truthy(p.occasion) /\ ~Truthy(p.holiday)
IsRemainingPhoto(p) == ~Truthy(p.holiday) /\ ~Truthy(p.occasion)

\* the key under which a photo of each of the three filtered lists is stored
HolidayKey(p) == <<"holiday", OrElse(OptLower(p.holiday), UnknownStr)>>
OccasionKey(p) == <<"occasion", OrElse(OptLower(p.occasion), UnknownStr)>>
LocationKey(p) == <<"location", ToLowerCase(p.location)>>

\* groups[key].push(photo), creating the entry at the end when it is missing;
\* groups is the sequence of the object's entries in insertion order
PushToGroup(groups, key, photo) ==
    IF \E g \in DOMAIN groups : groups[g].key = key
    THEN [g \in DOMAIN groups |->
            IF groups[g].key = key
            THEN [groups[g] EXCEPT !.photos = Append(@, photo)]
            ELSE groups[g]]
    ELSE Append(groups, [key |-> key, photos |-> <<photo>>])

\* list.forEach(photo => push under its key), starting from groups;
\* keys[i] is the key computed for list[i]
RECURSIVE PushAll(_, _, _)
PushAll(groups, list, keys) ==
    IF list = <<>> THEN groups
    ELSE PushAll(PushToGroup(groups, Head(keys), Head(list)), Tail(list), Tail(keys))

BuildGroups(photos) ==
    LET holidayPhotos == SelectSeq(photos, IsHolidayPhoto)
        occasionPhotos == SelectSeq(photos, IsOccasionPhoto)
        remainingPhotos == SelectSeq(photos, IsRemainingPhoto)
        g1 == PushAll(<<>>, holidayPhotos,
                      [i \in DOMAIN holidayPhotos |-> HolidayKey(holidayPhotos[i])])
        g2 == PushAll(g1, occasionPhotos,
                      [i \in DOMAIN occasionPhotos |-> OccasionKey(occasionPhotos[i])])
    IN  PushAll(g2, remainingPhotos,
                [i \in DOMAIN remainingPhotos |-> LocationKey(remainingPhotos[i])])

\* the theme built from one entry of groups
ThemeOf(group) ==
    LET photos == group.photos
        locations == [k \in DOMAIN photos |-> ToLowerCase(photos[k].location)]
        activities == [k \in DOMAIN photos |-> ToLowerCase(photos[k].activity)]
        holidays == SelectSeq([k \in DOMAIN photos |-> OptLower(photos[k].holiday)], Truthy)
        occasions == SelectSeq([k \in DOMAIN photos |-> OptLower(photos[k].occasion)], Truthy)
    IN  [key |-> group.key,
         location |-> FindMostCommon(locations),
         mainActivity |-> FindMostCommon(activities),
         holiday |-> IF Len(holidays) > 0 THEN FindMostCommon(holidays) ELSE Undefined,
         occasion |-> IF Len(occasions) > 0 THEN FindMostCommon(occasions) ELSE Undefined,
         photos |-> group.photos]

GroupPhotosByTheme(photos) ==
    LET groups == BuildGroups(photos)
    IN  [g \in DOMAIN groups |-> ThemeOf(groups[g])]

----------------------------------------------------------------------------
(* Inputs of groupPhotosByTheme *)

\* "H", "h": two spellings of one holiday; "O", "o": of one occasion
HolidayValues == {Undefined, <<72>>, <<104>>}
OccasionValues == {<<>>, <<79>>, <<111>>}
\* "P", "p", "q" and "x", "y", "Y"
LocationValues == {<<80>>, <<112>>, <<113>>}
ActivityValues == {<<120>>, <<121>>, <<89>>}

\* photos that differ in what decides their group
ContextPhotos ==
    [holiday : HolidayValues, occasion : OccasionValues,
     location : {<<80>>, <<112>>}, activity : {<<120>>}]

\* photos of one holiday that differ in location and activity
ThemePhotos ==
    [holiday : {<<72>>}, occasion : {<<>>},
     location : LocationValues, activity : ActivityValues]

WithIds(ps) == [i \in DOMAIN ps |-> [id |-> i] @@ ps[i]]

GroupIdle == analyzedPhotos = <<>> /\ themes = <<>> /\ groupPc = "idle"

GroupInit ==
    /\ \/ \E n \in 0..MaxPhotos :
            \E ps \in [1..n -> ContextPhotos] : analyzedPhotos = WithIds(ps)
       \/ \E n \in 0..MaxThemePhotos :
            \E ps \in [1..n -> ThemePhotos] : analyzedPhotos = WithIds(ps)
    /\ themes = <<>>
    /\ groupPc = "input"

\* one call of groupPhotosByTheme
Group ==
    /\ groupPc = "input"
    /\ themes' = GroupPhotosByTheme(analyzedPhotos)
    /\ groupPc' = "done"
    /\ UNCHANGED analyzedPhotos

----------------------------------------------------------------------------
(* app/api/analyze-photos/route.ts and analyzePhoto / analyzeImageWithVision *)

ConcurrencyLimit == 2
\* base64Data shorter than this is rejected
MinBase64Length == 100
\* modelsToTry of analyzeImageWithVision: gpt-4o, gpt-4-vision-preview, gpt-4-turbo
VisionModels == 3

\* "posing"
PosingStr == <<112, 111, 115, 105, 110, 103>>

\* photo.base64: missing, a bare base64 string, or a data URL "<prefix>,<data>";
\* dataLen is the length of the base64 data
Base64Values ==
    {[kind |-> "missing", dataLen |-> 0],
     [kind |-> "raw", dataLen |-> MinBase64Length - 1],
     [kind |-> "raw", dataLen |-> MinBase64Length],
     [kind |-> "dataurl", dataLen |-> MinBase64Length]}

\* what analyzeImageWithVision can return: the parsed reply, here one that
\* carries properties named id and originalImage of its own
VisionResults ==
    {[petType |-> "dog", location |-> <<80>>, activity |-> <<120>>,
      holiday |-> <<72>>, occasion |-> <<>>, error |-> "none",
      id |-> 0, originalImage |-> [kind |-> "raw", dataLen |-> 0]]}

\* a fallback that carries no error message
MutAnalyzePhotoFallback ==
    [petType |-> "pet", location |-> UnknownStr, activity |-> PosingStr,
     holiday |-> Undefined, occasion |-> Undefined, error |-> "none"]

\* analyzePhoto's catch: the fallback result with the error's message
AnalyzePhotoFallback ==
    [petType |-> "pet", location |-> UnknownStr, activity |-> PosingStr,
     holiday |-> Undefined, occasion |-> Undefined,
     error |-> "All models failed for vision analysis"]

\* a catch that returns the values of a successful analysis
MutRouteFallback ==
    [petType |-> "dog", location |-> <<80>>, activity |-> <<120>>,
     holiday |-> Undefined, occasion |-> Undefined,
     error |-> "Failed to analyze: Invalid image data"]
\* the mapper's catch in the route
RouteFallback ==
    [petType |-> "pet", location |-> UnknownStr, activity |-> PosingStr,
     holiday |-> Undefined, occasion |-> Undefined,
     error |-> "Failed to analyze: Invalid image data"]

\* the mapper throws before the call: photo.base64 missing (a TypeError), or
\* the extracted base64Data empty or shorter than MinBase64Length
InvalidImageData(photo) ==
    photo.base64.kind = "missing" \/ photo.base64.dataLen < MinBase64Length

\* an entry in which the properties of the result come last
MutEntryOf(photo, result) ==
    result @@ [id |-> photo.id, originalImage |-> photo.base64]
\* the entry the mapper returns for a photo: the result with id and originalImage
EntryOf(photo, result) ==
    [id |-> photo.id, originalImage |-> photo.base64] @@ result

\* a slice that is one photo too long
MutBatchAt(i) == {p \in DOMAIN reqPhotos : i < p /\ p <= i + ConcurrencyLimit + 1}
\* photos.slice(i, i + concurrencyLimit), as 1-based indices
BatchAt(i) == {p \in DOMAIN reqPhotos : i < p /\ p <= i + ConcurrencyLimit}

InFlight == {p \in DOMAIN reqPhotos : visionCall[p].state = "inflight"}

\* Promise.all settles with every promise settled
BatchSettled == \A p \in BatchAt(batchStart) : visionCall[p].state = "settled"

\* no result yet
NoResult == [pending |-> TRUE]
\* no response yet
NoResponse == [status |-> 0]

\* model is the index of the model called last, failed the number of models
\* that failed
NoCall == [state |-> "idle", model |-> 0, failed |-> 0, result |-> NoResult]

AnalyzeIdle ==
    /\ reqPhotos = <<>> /\ batchStart = 0 /\ visionCall = <<>>
    /\ routeAnalyzed = <<>> /\ analyzeResponse = NoResponse /\ analyzePc = "idle"

\* a request that passed the validation of photos (a non-empty array)
AnalyzeInit ==
    /\ \E n \in 1..MaxRequestPhotos :
         \E bs \in [1..n -> Base64Values] :
            reqPhotos = [p \in 1..n |-> [id |-> p, base64 |-> bs[p]]]
    /\ batchStart = 0
    /\ visionCall = [p \in DOMAIN reqPhotos |-> NoCall]
    /\ routeAnalyzed = <<>>
    /\ analyzeResponse = NoResponse
    /\ analyzePc = "loop"

\* batch.map(async photo => ...): every mapper of the batch runs up to its first
\* await: it either throws on invalid data and returns the route's fallback,
\* or issues the call to the first model
StartBatch ==
    /\ analyzePc = "loop"
    /\ batchStart < Len(reqPhotos)
    /\ visionCall' =
         [p \in DOMAIN reqPhotos |->
            IF p \in BatchAt(batchStart)
            THEN IF InvalidImageData(reqPhotos[p])
                 THEN [state |-> "settled", model |-> 0, failed |-> 0,
                       result |-> EntryOf(reqPhotos[p], RouteFallback)]
                 ELSE [state |-> "inflight", model |-> 1, failed |-> 0,
                       result |-> NoResult]
            ELSE visionCall[p]]
    /\ analyzePc' = "await"
    /\ UNCHANGED <<reqPhotos, batchStart, routeAnalyzed, analyzeResponse>>

\* the model in flight for photo p answers: the mapper returns the parsed reply
VisionAnswers(p) ==
    /\ p \in InFlight
    /\ \E r \in VisionResults :
         visionCall' = [visionCall EXCEPT ![p] =
            [state |-> "settled", model |-> @.model, failed |-> @.failed,
             result |-> EntryOf(reqPhotos[p], r)]]
    /\ UNCHANGED <<reqPhotos, batchStart, routeAnalyzed, analyzeResponse, analyzePc>>

\* the model in flight for photo p fails: the next model is called, and after
\* the last one analyzePhoto returns its fallback
VisionFails(p) ==
    /\ p \in InFlight
    /\ visionCall' = [visionCall EXCEPT ![p] =
         IF @.model < VisionModels
         THEN [state |-> "inflight", model |-> @.model + 1, failed |-> @.failed + 1,
               result |-> NoResult]
         ELSE [state |-> "settled", model |-> @.model, failed |-> @.failed + 1,
               result |-> EntryOf(reqPhotos[p], AnalyzePhotoFallback)]]
    /\ UNCHANGED <<reqPhotos, batchStart, routeAnalyzed, analyzeResponse, analyzePc>>

\* await Promise.all(batchPromises); analyzedPhotos.push(...batchResults); i += 2
BatchDone ==
    /\ analyzePc = "await"
    /\ BatchSettled
    /\ routeAnalyzed' = routeAnalyzed \o
         [k \in 1..Cardinality(BatchAt(batchStart)) |-> visionCall[batchStart + k].result]
    /\ batchStart' = batchStart + ConcurrencyLimit
    /\ analyzePc' = "loop"
    /\ UNCHANGED <<reqPhotos, visionCall, analyzeResponse>>

\* after the loop: group into themes and return the response
AnalyzeRespond ==
    /\ analyzePc = "loop"
    /\ batchStart >= Len(reqPhotos)
    /\ analyzeResponse' =
         [status |-> 200, success |-> TRUE, analyzedPhotos |-> routeAnalyzed,
          themes |-> GroupPhotosByTheme(routeAnalyzed)]
    /\ analyzePc' = "done"
    /\ UNCHANGED <<reqPhotos, batchStart, visionCall, routeAnalyzed>>

----------------------------------------------------------------------------
(* app/api/stylize-images/route.ts, lib/imageStylizer.ts and                *)
(* stylizeImageWithFallback of lib/services/openai-service.ts               *)

MAX_IMAGE_SIZE_BYTES == 4 * 1024 * 1024

\* length > MAX_BASE64_LENGTH, that is length > MAX_IMAGE_SIZE_BYTES * 1.37
ExceedsMaxBase64Length(length) == 100 * length > 137 * MAX_IMAGE_SIZE_BYTES

\* the largest length that does not exceed MAX_BASE64_LENGTH (5746196.48)
AtMaxBase64Length == (137 * MAX_IMAGE_SIZE_BYTES) \div 100

STYLE_OPTIONS == {"cartoon", "watercolor", "ghibli", "flat-illustration"}

\* image.base64 of a request; decodable: Sharp can read the data as an image
ImageValues ==
    {[kind |-> "missing", dataLen |-> 0, decodable |-> FALSE],
     [kind |-> "raw", dataLen |-> MinBase64Length - 1, decodable |-> TRUE],
     [kind |-> "dataurl", dataLen |-> AtMaxBase64Length, decodable |-> TRUE],
     [kind |-> "raw", dataLen |-> AtMaxBase64Length + 1, decodable |-> TRUE],
     [kind |-> "raw", dataLen |-> AtMaxBase64Length + 1, decodable |-> FALSE]}

\* base64 lengths of the JPEG (quality 80, sides at most 1024) that Sharp returns
CompressedLengths == {3000000}

\* image.base64.length: a data URL is longer than its data by the prefix
Base64Length(b) == IF b.kind = "dataurl" THEN b.dataLen + 23 ELSE b.dataLen

\* the route throws before any call: base64 missing or shorter than 100
InvalidImage(image) ==
    image.base64.kind = "missing" \/ Base64Length(image.base64) < MinBase64Length

\* base64Data after the data URL prefix is split off: the image's own data
ExtractBase64(image) ==
    [of |-> image.id, form |-> "original", len |-> image.base64.dataLen]

\* compressImage whose result is dropped
MutCompressImage(data, image, jpegLen) == data
\* compressImage: the JPEG of the given length, or on an error its argument
CompressImage(data, image, jpegLen) ==
    IF image.base64.decodable
    THEN [of |-> data.of, form |-> "jpeg", len |-> jpegLen]
    ELSE data

\* the request stylizeImageWithFallback sends with openai.images.generate,
\* for the prompt that stylizeImage builds from the style
GenerateRequest(imageBase64, st) ==
    [model |-> "dall-e-3", prompt |-> st, n |-> 1,
     size |-> "1024x1024", response_format |-> "b64_json"]

NoStylizeCall == [state |-> "idle", handed |-> NoResult, request |-> NoResult]

\* stylizeImage(base64Data, style, petInfo) is called: the request goes out
IssuedCall(data, st) ==
    [state |-> "inflight", handed |-> data, request |-> GenerateRequest(data, st)]

StylizeInFlight == {p \in DOMAIN images : stylizeCall[p].state = "inflight"}

\* response.data[0].b64_json of an answer of the service: undefined,
\* or a string, written as the sequence of its pieces: the empty string, the
\* base64 text of the picture, or a data URL of it
B64Answers ==
    {[kind |-> "undefined"],
     [kind |-> "string", text |-> <<>>],
     [kind |-> "string", text |-> <<"iVBORw0KGgo">>],
     [kind |-> "string", text |-> <<"data:image/png;base64,", "iVBORw0KGgo">>]}

\* the answer is passed on as it is
MutWithPrefix(text) == text
\* stylizedBase64.includes('data:image') ? stylizedBase64
\*                                        : `data:image/jpeg;base64,${stylizedBase64}`
WithPrefix(text) ==
    IF \E k \in DOMAIN text : text[k] \in {"data:image/png;base64,", "data:image/jpeg;base64,"}
    THEN text
    ELSE <<"data:image/jpeg;base64,">> \o text

\* the entries pushed to stylizedImages
SuccessEntry(image, b64) ==
    [id |-> image.id, originalImage |-> image.base64,
     stylizedImage |-> [text |-> WithPrefix(b64.text)], error |-> "none"]
FailureEntry(image, message) ==
    [id |-> image.id, originalImage |-> image.base64,
     stylizedImage |-> [null |-> TRUE], error |-> message]

StylizeIdle ==
    /\ images = <<>> /\ style = "none" /\ imgIndex = 0 /\ base64Data = NoResult
    /\ stylizeCall = <<>> /\ delayBefore = <<>> /\ stylizedImages = <<>>
    /\ stylizeResponse = NoResponse /\ stylizePc = "idle"

\* a request that passed the validation of images and style
StylizeInit ==
    /\ \E n \in 1..MaxImages :
         \E bs \in [1..n -> ImageValues] :
            images = [p \in 1..n |-> [id |-> p, base64 |-> bs[p]]]
    /\ style \in {"cartoon", "flat-illustration"}
    /\ imgIndex = 0
    /\ base64Data = NoResult
    /\ stylizeCall = [p \in DOMAIN images |-> NoStylizeCall]
    /\ delayBefore = [p \in DOMAIN images |-> FALSE]
    /\ stylizedImages = <<>>
    /\ stylizeResponse = NoResponse
    /\ stylizePc = "loop"

\* the loop body up to its first await: an invalid image is recorded as failed
\* (the catch), an over-limit image goes to compressImage, any other image is
\* handed to stylizeImage at once
ProcessImage ==
    /\ stylizePc = "loop"
    /\ imgIndex < Len(images)
    /\ LET image == images[imgIndex + 1]
       IN  IF InvalidImage(image)
           THEN /\ stylizedImages' =
                     Append(stylizedImages, FailureEntry(image, "Invalid image data"))
                /\ imgIndex' = imgIndex + 1
                /\ UNCHANGED <<base64Data, stylizeCall, stylizePc>>
           ELSE IF ExceedsMaxBase64Length(ExtractBase64(image).len)
           THEN /\ base64Data' = ExtractBase64(image)
                /\ stylizePc' = "compress"
                /\ UNCHANGED <<imgIndex, stylizeCall, stylizedImages>>
           ELSE /\ base64Data' = ExtractBase64(image)
                /\ stylizeCall' = [stylizeCall EXCEPT ![imgIndex + 1] =
                                      IssuedCall(ExtractBase64(image), style)]
                /\ stylizePc' = "await"
                /\ UNCHANGED <<imgIndex, stylizedImages>>
    /\ UNCHANGED <<images, style, delayBefore, stylizeResponse>>

\* await compressImage(base64Data) returns; the result is handed to stylizeImage
CompressDone ==
    /\ stylizePc = "compress"
    /\ \E jpegLen \in CompressedLengths :
         LET data == CompressImage(base64Data, images[imgIndex + 1], jpegLen)
         IN  /\ base64Data' = data
             /\ stylizeCall' = [stylizeCall EXCEPT ![imgIndex + 1] =
                                   IssuedCall(data, style)]
    /\ stylizePc' = "await"
    /\ UNCHANGED <<images, style, imgIndex, delayBefore, stylizedImages, stylizeResponse>>

\* the route still awaits the race for the call of image p
Awaited(p) == stylizePc = "await" /\ p = imgIndex + 1

\* the service answers the call of image p; when the route still awaits it the
\* entry is pushed, and a delay follows unless p is the last image; an answer
\* without b64_json makes stylizedBase64.includes throw, which the catch records
StylizeAnswers(p) ==
    /\ p \in StylizeInFlight
    /\ stylizeCall' = [stylizeCall EXCEPT ![p].state = "answered"]
    /\ IF Awaited(p)
       THEN \E b64 \in B64Answers :
              IF b64.kind = "undefined"
              THEN /\ stylizedImages' =
                        Append(stylizedImages,
                               FailureEntry(images[p], "Cannot read properties of undefined"))
                   /\ imgIndex' = imgIndex + 1
                   /\ stylizePc' = "loop"
              ELSE /\ stylizedImages' = Append(stylizedImages, SuccessEntry(images[p], b64))
                   /\ IF imgIndex < Len(images) - 1
                      THEN stylizePc' = "delay" /\ UNCHANGED imgIndex
                      ELSE stylizePc' = "loop" /\ imgIndex' = imgIndex + 1
       ELSE UNCHANGED <<stylizedImages, stylizePc, imgIndex>>
    /\ UNCHANGED <<images, style, base64Data, delayBefore, stylizeResponse>>

\* the service fails the call of image p; when the route still awaits it the
\* catch records the failure and the loop goes on
StylizeFails(p) ==
    /\ p \in StylizeInFlight
    /\ stylizeCall' = [stylizeCall EXCEPT ![p].state = "failed"]
    /\ IF Awaited(p)
       THEN /\ stylizedImages' =
                 Append(stylizedImages, FailureEntry(images[p], "Failed to stylize image"))
            /\ imgIndex' = imgIndex + 1
            /\ stylizePc' = "loop"
       ELSE UNCHANGED <<stylizedImages, stylizePc, imgIndex>>
    /\ UNCHANGED <<images, style, base64Data, delayBefore, stylizeResponse>>

\* a timer that never rejects: the route keeps waiting for the service
MutStylizeTimeout ==
    /\ stylizePc = "await"
    /\ imgIndex + 1 \in StylizeInFlight
    /\ UNCHANGED <<images, style, imgIndex, base64Data, stylizeCall, delayBefore,
                   stylizedImages, stylizeResponse, stylizePc>>
\* the 90 second timer wins the race: the catch records the failure and the
\* loop goes on; nothing cancels the call
StylizeTimeout ==
    /\ stylizePc = "await"
    /\ imgIndex + 1 \in StylizeInFlight
    /\ stylizedImages' =
         Append(stylizedImages,
                FailureEntry(images[imgIndex + 1], "Stylization timed out after 90 seconds"))
    /\ imgIndex' = imgIndex + 1
    /\ stylizePc' = "loop"
    /\ UNCHANGED <<images, style, base64Data, stylizeCall, delayBefore, stylizeResponse>>

\* the 2 second delay after a stylized image that is not the last one
DelayElapsed ==
    /\ stylizePc = "delay"
    /\ delayBefore' = [delayBefore EXCEPT ![imgIndex + 2] = TRUE]
    /\ imgIndex' = imgIndex + 1
    /\ stylizePc' = "loop"
    /\ UNCHANGED <<images, style, base64Data, stylizeCall, stylizedImages, stylizeResponse>>

\* stylizedImages.filter(img => img.stylizedImage).length: null and the empty
\* string do not count
Successful(entries) ==
    Cardinality({k \in DOMAIN entries :
                    /\ entries[k].stylizedImage # [null |-> TRUE]
                    /\ entries[k].stylizedImage.text # <<>>})

\* after the loop: the response with the entries and the stats
StylizeRespond ==
    /\ stylizePc = "loop"
    /\ imgIndex >= Len(images)
    /\ stylizeResponse' =
         [status |-> 200, success |-> TRUE, stylizedImages |-> stylizedImages,
          stats |-> [total |-> Len(images),
                     successful |-> Successful(stylizedImages),
                     failed |-> Len(images) - Successful(stylizedImages)]]
    /\ stylizePc' = "done"
    /\ UNCHANGED <<images, style, imgIndex, base64Data, stylizeCall, delayBefore,
                   stylizedImages>>

----------------------------------------------------------------------------
(* lib/services/openai-service.ts: the model chains of                      *)
(* generateStoryWithFallback and editStoryStyleWithFallback                 *)

\* modelsToTry in another order
MutModelsToTry == <<"gpt-4-turbo", "gpt-4o", "gpt-4", "gpt-3.5-turbo">>
ModelsToTry == <<"gpt-4o", "gpt-4-turbo", "gpt-4", "gpt-3.5-turbo">>

\* messages of the errors a model call can throw, as sequences of words; the
\* last one is the TypeError of an answer without choices
ErrorMessages ==
    {<<"404", "model", "not", "found">>,
     <<"model", "is", "not", "supported">>,
     <<"429", "rate", "limit", "reached">>,
     <<"request", "not", "authorized">>,
     <<"Cannot", "read", "properties", "of", "undefined">>}

\* message.includes(part)
Includes(message, part) ==
    \E k \in 0..(Len(message) - Len(part)) :
        \A j \in DOMAIN part : message[k + j] = part[j]

\* a catch that goes on to the next model for every error
MutModelRelated(message) == TRUE
\* the catch goes on to the next model only for these errors
ModelRelated(message) ==
    Includes(message, <<"404">>) \/ Includes(message, <<"not", "supported">>)

\* the content of a model's answer: JSON, text with "text": "..." pages, text
\* in paragraphs, or nothing
AnswerKinds == {"json", "pages", "paragraphs", "empty"}

\* what the function returns for an answer
ResultOfAnswer(fn, args, kind) ==
    IF fn = "editStory"
    THEN IF kind = "empty" THEN [text |-> args.storyText] ELSE [text |-> kind]
    ELSE IF kind = "json" THEN [title |-> "parsed", pages |-> "parsed"]
         ELSE [title |-> <<args.petName, "Adventure">>,
               pages |-> IF kind = "empty" THEN "none" ELSE kind]

\* a fallback without the theme's name and with the edited text empty
MutResultOfNoModel(fn, args) ==
    IF fn = "editStory"
    THEN [text |-> ""]
    ELSE [title |-> <<args.petName, "Adventure">>,
          pages |-> <<[text |-> <<args.petName, "is having a wonderful day.">>]>>]
\* what the function returns when every model has failed: the original text,
\* or the minimal story `${petInfo.name}'s ${theme.name || 'Adventure'}`
ResultOfNoModel(fn, args) ==
    IF fn = "editStory"
    THEN [text |-> args.storyText]
    ELSE [title |-> <<args.petName,
                      IF args.themeName = "" THEN "Adventure" ELSE args.themeName>>,
          pages |-> <<[text |-> <<"Once upon a time, there was a pet named", args.petName,
                                  "who went on an adventure.">>],
                      [text |-> <<args.petName,
                                  "had a wonderful time exploring and playing.">>],
                      [text |-> <<"At the end of the day,", args.petName,
                                  "returned home, happy and tired.">>]>>]

StoryIdle ==
    /\ storyFn = "none" /\ storyArgs = NoResult /\ modelIdx = 0
    /\ storyCalls = <<>> /\ storyResult = NoResult /\ storyPc = "idle"

StoryInit ==
    /\ storyFn \in {"generateStory", "editStory"}
    /\ storyArgs \in [petName : {"Rex", "Tom"}, themeName : {"", "Beach Day"},
                      storyText : {"Once", "One day"}]
    /\ modelIdx = 0
    /\ storyCalls = <<>>
    /\ storyResult = NoResult
    /\ storyPc = "loop"

\* the loop body: openai.chat.completions.create with the next model
CallModel ==
    /\ storyPc = "loop"
    /\ modelIdx < Len(ModelsToTry)
    /\ storyCalls' = Append(storyCalls,
                            [model |-> ModelsToTry[modelIdx + 1], outcome |-> "pending",
                             message |-> <<>>])
    /\ storyPc' = "call"
    /\ UNCHANGED <<storyFn, storyArgs, modelIdx, storyResult>>

\* the model answers: the function returns from inside the loop
ModelAnswers ==
    /\ storyPc = "call"
    /\ \E kind \in AnswerKinds :
         storyResult' = ResultOfAnswer(storyFn, storyArgs, kind)
    /\ storyCalls' = [storyCalls EXCEPT ![Len(storyCalls)].outcome = "answered"]
    /\ storyPc' = "returned"
    /\ UNCHANGED <<storyFn, storyArgs, modelIdx>>

\* the call throws: the catch goes on to the next model or rethrows
ModelFails ==
    /\ storyPc = "call"
    /\ \E message \in ErrorMessages :
         /\ IF ModelRelated(message)
            THEN /\ modelIdx' = modelIdx + 1
                 /\ storyPc' = "loop"
                 /\ UNCHANGED storyResult
            ELSE /\ storyResult' = [error |-> message]
                 /\ storyPc' = "thrown"
                 /\ UNCHANGED modelIdx
         /\ storyCalls' = [storyCalls EXCEPT ![Len(storyCalls)] =
                              [@ EXCEPT !.outcome = "failed", !.message = message]]
    /\ UNCHANGED <<storyFn, storyArgs>>

\* after the loop: every model has failed
NoModelLeft ==
    /\ storyPc = "loop"
    /\ modelIdx >= Len(ModelsToTry)
    /\ storyResult' = ResultOfNoModel(storyFn, storyArgs)
    /\ storyPc' = "returned"
    /\ UNCHANGED <<storyFn, storyArgs, modelIdx, storyCalls>>

----------------------------------------------------------------------------
(* app/book-preview/page.tsx *)

\* the styles of the page's buttons besides 'original'
ButtonStyles == {"cartoon", "watercolor", "ghibli"}

\* useState({}) of stylizedImages: no style has entries
NoPageImages == [st \in ButtonStyles |-> <<>>]

\* stylizedImages[style] && stylizedImages[style].length > 0, without the check
MutAlreadyGenerated(st) == FALSE
\* stylizedImages[style] && stylizedImages[style].length > 0
AlreadyGenerated(st) == Len(pageImages[st]) > 0

\* response.data.stylizedImages of a successful response: one entry per image
\* sent, each stylized or null
StylizeResponses(sent) == [DOMAIN sent -> {"stylized", "null"}]

PreviewIdle ==
    /\ mountId = 0 /\ originalImages = <<>> /\ selectedStyle = "none"
    /\ isStylizing = FALSE /\ pageImages = <<>> /\ pageError = ""
    /\ pendingPosts = {} /\ postsSent = 0 /\ clicks = 0 /\ clicked = "none"
    /\ returnedOk = {}

\* the first instance after its load effect: the photos of the stored theme
PreviewInit ==
    /\ mountId = 1
    /\ \E n \in 0..MaxPageImages : originalImages = [k \in 1..n |-> k]
    /\ selectedStyle = "original"
    /\ isStylizing = FALSE
    /\ pageImages = NoPageImages
    /\ pageError = ""
    /\ pendingPosts = {}
    /\ postsSent = 0 /\ clicks = 0 /\ clicked = "none"
    /\ returnedOk = {}

\* handleStyleChange(style), from a click on a button that is not disabled
HandleStyleChange(st) ==
    /\ clicks < MaxClicks
    /\ st = "original" \/ ~isStylizing
    /\ clicks' = clicks + 1
    /\ clicked' = st
    /\ selectedStyle' = st
    /\ IF st = "original"
       THEN UNCHANGED <<isStylizing, pageError, pendingPosts, postsSent>>
       ELSE IF AlreadyGenerated(st)
       THEN /\ pageError' = ""
            /\ UNCHANGED <<isStylizing, pendingPosts, postsSent>>
       ELSE /\ pageError' = ""
            /\ isStylizing' = TRUE
            /\ pendingPosts' = pendingPosts \cup
                  {[style |-> st, mount |-> mountId, images |-> originalImages]}
            /\ postsSent' = postsSent + 1
    /\ UNCHANGED <<mountId, originalImages, pageImages, returnedOk>>

\* a POST returns success: the instance that sent it, if still mounted, stores
\* the entries under the style
PostSucceeds(post) ==
    /\ post \in pendingPosts
    /\ post.images # <<>>
    /\ pendingPosts' = pendingPosts \ {post}
    /\ IF post.mount = mountId
       THEN /\ \E entries \in StylizeResponses(post.images) :
                 pageImages' = [pageImages EXCEPT ![post.style] =
                     [k \in DOMAIN entries |->
                        [id |-> post.images[k], stylizedImage |-> entries[k]]]]
            /\ isStylizing' = FALSE
            /\ returnedOk' = returnedOk \cup {post.style}
            /\ UNCHANGED pageError
       ELSE UNCHANGED <<pageImages, isStylizing, returnedOk, pageError>>
    /\ UNCHANGED <<mountId, originalImages, selectedStyle, postsSent, clicks, clicked>>

\* a POST fails (status 400 for no images, 500, network): the catch sets error
PostFails(post) ==
    /\ post \in pendingPosts
    /\ pendingPosts' = pendingPosts \ {post}
    /\ IF post.mount = mountId
       THEN pageError' = "Failed to stylize images" /\ isStylizing' = FALSE
       ELSE UNCHANGED <<pageError, isStylizing>>
    /\ UNCHANGED <<mountId, originalImages, selectedStyle, pageImages, postsSent,
                   clicks, clicked, returnedOk>>

\* the user leaves the page and comes back: a new instance with fresh state
Remount ==
    /\ mountId < MaxMounts
    /\ mountId' = mountId + 1
    /\ selectedStyle' = "original"
    /\ isStylizing' = FALSE
    /\ pageImages' = NoPageImages
    /\ pageError' = ""
    /\ returnedOk' = {}
    /\ UNCHANGED <<originalImages, pendingPosts, postsSent, clicks, clicked>>

----------------------------------------------------------------------------
(* app/api/stylize-with-variation/route.ts *)

\* the body of a request: image.base64 missing, not decodable by Sharp, or
\* decodable; a style of STYLE_OPTIONS or another one
VarRequestValues == [image : {"missing", "undecodable", "ok"}, style : {"cartoon", "oil"}]

\* what an image API call comes to: b64_json of an image, a response without
\* one, or a rejection
ApiOutcomes == {"image", "noimage", "error"}

\* the message of the error thrown on an outcome that is no image
ApiErrorMessage(outcome) ==
    IF outcome = "noimage" THEN "invalid response structure" ELSE "api error"

VarStarted(r) == varPc[r] # "start"

VariationIdle ==
    /\ varRequest = <<>> /\ varStamp = <<>> /\ varPc = <<>>
    /\ tempDirs = {} /\ tempFiles = {}
    /\ variationCalls = <<>> /\ generationCalls = <<>>
    /\ variationError = <<>> /\ varResponse = <<>>

VariationInit ==
    /\ varRequest \in [1..MaxVarRequests -> VarRequestValues]
    /\ varStamp = [r \in 1..MaxVarRequests |-> 0]
    /\ varPc = [r \in 1..MaxVarRequests |-> "start"]
    /\ tempDirs = {} /\ tempFiles = {}
    /\ variationCalls = [r \in 1..MaxVarRequests |-> "none"]
    /\ generationCalls = [r \in 1..MaxVarRequests |-> "none"]
    /\ variationError = [r \in 1..MaxVarRequests |-> "none"]
    /\ varResponse = [r \in 1..MaxVarRequests |-> NoResponse]

\* the outer catch: rmSync(tempDir, recursive, force), status 500, one error
OuterCatch(r, message) ==
    /\ tempDirs' = tempDirs \ {varStamp[r]}
    /\ tempFiles' = tempFiles \ {varStamp[r]}
    /\ varResponse' = [varResponse EXCEPT ![r] =
          [status |-> 500, success |-> FALSE, method |-> "none",
           error |-> <<"Failed to process image", message>>,
           fallbackError |-> "none"]]
    /\ varPc' = [varPc EXCEPT ![r] = "done"]

\* a success path that returns without its cleanup
MutReturnResult(r, method) ==
    /\ UNCHANGED <<tempFiles, tempDirs>>
    /\ varResponse' = [varResponse EXCEPT ![r] =
          [status |-> 200, success |-> TRUE, method |-> method,
           error |-> <<>>, fallbackError |-> "none"]]
    /\ varPc' = [varPc EXCEPT ![r] = "done"]

\* a success path's return: unlinkSync(tempFilePath), rmdirSync(tempDir), 200
ReturnResult(r, method) ==
    /\ tempFiles' = tempFiles \ {varStamp[r]}
    /\ tempDirs' = tempDirs \ {varStamp[r]}
    /\ varResponse' = [varResponse EXCEPT ![r] =
          [status |-> 200, success |-> TRUE, method |-> method,
           error |-> <<>>, fallbackError |-> "none"]]
    /\ varPc' = [varPc EXCEPT ![r] = "done"]

\* up to await request.json(): tempDir is named by Date.now() and created
\* unless it exists; requests arrive in the order of their numbers
VarBegin(r) ==
    /\ varPc[r] = "start"
    /\ IF r = 1 THEN TRUE ELSE VarStarted(r - 1)
    /\ \E t \in 1..MaxStamps :
          /\ \A q \in 1..MaxVarRequests : varStamp[q] <= t
          /\ varStamp' = [varStamp EXCEPT ![r] = t]
          /\ tempDirs' = tempDirs \cup {t}
    /\ varPc' = [varPc EXCEPT ![r] = "json"]
    /\ UNCHANGED <<varRequest, tempFiles, variationCalls, generationCalls,
                   variationError, varResponse>>

\* from the parsed body to await Sharp(...).toBuffer()
VarValidate(r) ==
    /\ varPc[r] = "json"
    /\ IF varRequest[r].image = "missing"
       THEN OuterCatch(r, "No image provided or invalid format")
       ELSE IF varRequest[r].style \notin STYLE_OPTIONS
       THEN OuterCatch(r, "Invalid or missing style parameter")
       ELSE /\ varPc' = [varPc EXCEPT ![r] = "sharp"]
            /\ UNCHANGED <<tempDirs, tempFiles, varResponse>>
    /\ UNCHANGED <<varRequest, varStamp, variationCalls, generationCalls, variationError>>

\* Sharp settles; writeFileSync(tempFilePath), which throws when tempDir is
\* gone; createVariation is called
VarSharpDone(r) ==
    /\ varPc[r] = "sharp"
    /\ IF varRequest[r].image = "undecodable"
       THEN OuterCatch(r, "unsupported image format") /\ UNCHANGED variationCalls
       ELSE IF varStamp[r] \notin tempDirs
       THEN OuterCatch(r, "ENOENT") /\ UNCHANGED variationCalls
       ELSE /\ tempFiles' = tempFiles \cup {varStamp[r]}
            /\ variationCalls' = [variationCalls EXCEPT ![r] = "pending"]
            /\ varPc' = [varPc EXCEPT ![r] = "variation"]
            /\ UNCHANGED <<tempDirs, varResponse>>
    /\ UNCHANGED <<varRequest, varStamp, generationCalls, variationError>>

\* createVariation settles. With an image: unlinkSync (which throws ENOENT when
\* the file is gone), rmdirSync, return. Whatever is thrown inside the try,
\* the cleanup's error included, reaches catch (variationError), which calls
\* images.generate.
VariationSettles(r, outcome) ==
    /\ varPc[r] = "variation"
    /\ variationCalls' = [variationCalls EXCEPT ![r] = outcome]
    /\ IF outcome = "image" /\ varStamp[r] \in tempFiles
       THEN /\ ReturnResult(r, "variation")
            /\ UNCHANGED <<variationError, generationCalls>>
       ELSE /\ variationError' = [variationError EXCEPT ![r] =
                  IF outcome = "image" THEN "ENOENT" ELSE ApiErrorMessage(outcome)]
            /\ generationCalls' = [generationCalls EXCEPT ![r] = "pending"]
            /\ varPc' = [varPc EXCEPT ![r] = "generation"]
            /\ UNCHANGED <<tempDirs, tempFiles, varResponse>>
    /\ UNCHANGED <<varRequest, varStamp>>

\* images.generate settles. With an image: unlinkSync, rmdirSync, return.
\* Whatever is thrown reaches catch (dalleError): cleanup under existsSync,
\* status 500 with both messages.
GenerationSettles(r, outcome) ==
    /\ varPc[r] = "generation"
    /\ generationCalls' = [generationCalls EXCEPT ![r] = outcome]
    /\ IF outcome = "image" /\ varStamp[r] \in tempFiles
       THEN ReturnResult(r, "generation")
       ELSE /\ tempFiles' = tempFiles \ {varStamp[r]}
            /\ tempDirs' = tempDirs \ {varStamp[r]}
            /\ varResponse' = [varResponse EXCEPT ![r] =
                  [status |-> 500, success |-> FALSE, method |-> "none",
                   error |-> <<"Failed to stylize image", variationError[r]>>,
                   fallbackError |->
                      IF outcome = "image" THEN "ENOENT" ELSE ApiErrorMessage(outcome)]]
            /\ varPc' = [varPc EXCEPT ![r] = "done"]
    /\ UNCHANGED <<varRequest, varStamp, variationCalls, variationError>>

----------------------------------------------------------------------------
(* session storage of the tab *)

StorageKeys ==
    {"petTales_sessionId", "petTales_petInfo", "petTales_ownerInfo", "petTales_photos",
     "petTales_analyzedPhotos", "petTales_themes", "petTales_selectedTheme",
     "petTales_story"}

\* getItem of a key that was never set
Absent == [absent |-> TRUE]

\* the stored string of a value
Item(v) == [value |-> v]

\* the length of a data URL, in units: the compressed image or the original file
Base64Size(base64) == IF base64 = "original" THEN 2 ELSE 1

RECURSIVE PhotosSize(_)
PhotosSize(list) ==
    IF list = <<>> THEN 0 ELSE Base64Size(Head(list).base64) + PhotosSize(Tail(list))

\* the length of the string stored under a key, in the same units
ItemSize(key, item) ==
    IF item = Absent THEN 0
    ELSE IF key \in {"petTales_photos", "petTales_analyzedPhotos"}
    THEN 1 + PhotosSize(item.value)
    ELSE IF key = "petTales_themes"
    THEN 1 + PhotosSize(item.value[1].photos)
           + IF Len(item.value) > 1 THEN PhotosSize(item.value[2].photos) ELSE 0
    ELSE IF key = "petTales_selectedTheme" THEN 1 + PhotosSize(item.value.photos)
    ELSE IF key = "petTales_story"
    THEN 1 + Len(item.value.title)
           + IF "pages" \in DOMAIN item.value THEN Len(item.value.pages) ELSE 0
    ELSE 1

RECURSIVE UsageOver(_, _)
UsageOver(store, keys) ==
    IF keys = {} THEN 0
    ELSE LET key == CHOOSE k \in keys : TRUE
         IN ItemSize(key, store[key]) + UsageOver(store, keys \ {key})

\* sessionStorage.setItem for each <<key, value>> of writes in turn, up to the
\* first one that throws because the quota would be exceeded
RECURSIVE SetItems(_, _, _)
SetItems(store, writes, limit) ==
    IF writes = <<>> THEN [store |-> store, thrown |-> FALSE]
    ELSE LET written == [store EXCEPT ![Head(writes)[1]] = Item(Head(writes)[2])]
         IN IF UsageOver(written, StorageKeys) > limit
            THEN [store |-> store, thrown |-> TRUE]
            ELSE SetItems(written, Tail(writes), limit)

\* the sizes session storage may hold, against the sizes of the items
StorageQuotas == {9, 14, 40}

----------------------------------------------------------------------------
(* app/upload/page.tsx *)

\* what convertPhotosToBase64 pushes for one photo: the compressed image, the
\* original file after compression threw, or nothing after both threw
ConvertOutcomes == {"compressed", "original", "skipped"}

PetNames == {"", "Rex"}

\* base64Photos if photos that could not be converted were pushed as well
MutBase64Photos(selected, outs) ==
    [k \in DOMAIN outs |-> [id |-> selected[k], base64 |-> outs[k]]]

\* base64Photos after the outcomes so far
RECURSIVE Base64Photos(_, _)
Base64Photos(selected, outs) ==
    IF outs = <<>> THEN <<>>
    ELSE LET rest == Base64Photos(selected, SubSeq(outs, 1, Len(outs) - 1))
             k == Len(outs)
         IN IF outs[k] = "skipped" THEN rest
            ELSE Append(rest, [id |-> selected[k], base64 |-> outs[k]])

\* useState of UploadPage
UploadMounted ==
    /\ selectedPhotos' = <<>> /\ petName' = "" /\ isUploading' = FALSE
    /\ uploadError' = "" /\ outcomes' = <<>>

TabIdle ==
    /\ sessionStorage = <<>> /\ quota = 0 /\ location = "none" /\ pagePc = "none"
    /\ flowStage = 0 /\ visits = 0 /\ files = <<>>
    /\ uuidCount = 0 /\ selections = 0 /\ selectedPhotos = <<>> /\ petName = ""
    /\ isUploading = FALSE /\ uploadError = "" /\ outcomes = <<>>
    /\ selectedTheme = <<>> /\ editorStory = <<>> /\ title = <<>> /\ pages = <<>>
    /\ generating = 0 /\ orphaned = 0 /\ lastEdit = "none"

\* the files of a user with up to MaxSelected photos, and with up to MaxFlowFiles
UploadFiles == UNION {[1..n -> ConvertOutcomes] : n \in 0..MaxSelected}
FlowFiles == UNION {[1..n -> ConvertOutcomes \ {"skipped"}] : n \in 1..MaxFlowFiles}

\* a new tab on /upload: session storage is empty
TabInit(fileSets) ==
    /\ files \in fileSets
    /\ sessionStorage = [key \in StorageKeys |-> Absent]
    /\ quota \in StorageQuotas
    /\ location = "upload" /\ pagePc = "shown"
    /\ flowStage = 0 /\ visits = 0
    /\ uuidCount = 0 /\ selections = 0 /\ selectedPhotos = <<>> /\ petName = ""
    /\ isUploading = FALSE /\ uploadError = "" /\ outcomes = <<>>
    /\ selectedTheme = Absent /\ editorStory = Absent /\ title = <<>> /\ pages = <<>>
    /\ generating = 0 /\ orphaned = 0 /\ lastEdit = "none"

\* router.push(path), or the user entering the URL: the page is left
Navigate(path) ==
    /\ location' = path
    /\ pagePc' = "mounting"

\* handlePhotosSelected, from PhotoUploader: each selection has new ids
HandlePhotosSelected(n) ==
    /\ location = "upload" /\ pagePc = "shown" /\ ~isUploading
    /\ n <= Len(files)
    /\ selections < MaxSelections
    /\ selections' = selections + 1
    /\ selectedPhotos' = [k \in 1..n |-> <<selections + 1, k>>]
    /\ UNCHANGED <<sessionStorage, quota, location, pagePc, flowStage, visits,
                   files, uuidCount, petName, isUploading, uploadError, outcomes,
                   selectedTheme, editorVars>>

\* the pet name input
HandlePetName(name) ==
    /\ location = "upload" /\ pagePc = "shown" /\ ~isUploading
    /\ name # petName
    /\ petName' = name
    /\ UNCHANGED <<sessionStorage, quota, location, pagePc, flowStage, visits,
                   files, uuidCount, selections, selectedPhotos, isUploading, uploadError,
                   outcomes, selectedTheme, editorVars>>

\* handleSubmit up to the first await of convertPhotosToBase64
HandleSubmit ==
    /\ location = "upload" /\ pagePc = "shown" /\ ~isUploading
    /\ uuidCount < MaxSubmits
    /\ IF selectedPhotos = <<>>
       THEN uploadError' = "Please upload at least one photo"
            /\ UNCHANGED <<isUploading, outcomes>>
       ELSE IF petName = ""
       THEN uploadError' = "Please enter your pet's name"
            /\ UNCHANGED <<isUploading, outcomes>>
       ELSE isUploading' = TRUE /\ uploadError' = "" /\ outcomes' = <<>>
    /\ UNCHANGED <<sessionStorage, quota, location, pagePc, flowStage, visits,
                   files, uuidCount, selections, selectedPhotos, petName, selectedTheme,
                   editorVars>>

\* handleSubmit after convertPhotosToBase64 returned converted
SubmitTail(converted) ==
    LET meta == SetItems(sessionStorage,
                   << <<"petTales_sessionId", uuidCount + 1>>,
                      <<"petTales_petInfo", [name |-> petName, type |-> "dog"]>>,
                      <<"petTales_ownerInfo", [name |-> ""]>> >>, quota)
        all == SetItems(meta.store, << <<"petTales_photos", converted>> >>, quota)
        reduced == SetItems(meta.store,
                      << <<"petTales_photos", SubSeq(converted, 1, 3)>> >>, quota)
        failed == "Failed to process photos. Please try again with fewer or smaller photos."
    IN /\ isUploading' = FALSE
       /\ IF converted = <<>>
          THEN /\ uploadError' = failed
               /\ UNCHANGED <<sessionStorage, uuidCount, location, pagePc, flowStage>>
          ELSE /\ uuidCount' = uuidCount + 1
               /\ IF meta.thrown
                  THEN /\ sessionStorage' = meta.store
                       /\ uploadError' = failed
                       /\ UNCHANGED <<location, pagePc, flowStage>>
                  ELSE IF ~all.thrown
                  THEN /\ sessionStorage' = all.store
                       /\ Navigate("analysis")
                       /\ flowStage' = IF flowStage = 0 THEN 1 ELSE flowStage
                       /\ UNCHANGED uploadError
                  ELSE IF Len(converted) > 3 /\ ~reduced.thrown
                  THEN /\ sessionStorage' = reduced.store
                       /\ uploadError' =
                             "Only the first 3 photos could be processed due to storage limitations."
                       /\ Navigate("analysis")
                       /\ flowStage' = IF flowStage = 0 THEN 1 ELSE flowStage
                  ELSE /\ sessionStorage' = meta.store
                       /\ uploadError' = failed
                       /\ UNCHANGED <<location, pagePc, flowStage>>

\* one iteration of the loop of convertPhotosToBase64 settles; after the last
\* one handleSubmit runs to its end
ConvertPhoto(outcome) ==
    /\ location = "upload" /\ pagePc = "shown" /\ isUploading
    /\ Len(outcomes) < Len(selectedPhotos)
    /\ outcome = files[Len(outcomes) + 1]
    /\ outcomes' = Append(outcomes, outcome)
    /\ IF Len(outcomes) + 1 = Len(selectedPhotos)
       THEN SubmitTail(Base64Photos(selectedPhotos, Append(outcomes, outcome)))
       ELSE UNCHANGED <<sessionStorage, location, pagePc, flowStage, uuidCount,
                        isUploading, uploadError>>
    /\ UNCHANGED <<quota, visits, files, selections, selectedPhotos, petName, selectedTheme,
                   editorVars>>

\* the load of /upload: the page has no load effect that reads storage
UploadMount ==
    /\ location = "upload" /\ pagePc = "mounting"
    /\ pagePc' = "shown"
    /\ UploadMounted
    /\ UNCHANGED <<sessionStorage, quota, location, flowStage, visits, files, uuidCount,
                   selections, selectedTheme, editorVars>>

----------------------------------------------------------------------------
(* app/analysis/page.tsx *)

\* response.data.themes for the photos sent: the photos in one theme, or the
\* first photo in a theme of its own
ThemesOf(list) ==
    {<<[id |-> 1, photos |-> list]>>} \cup
    IF Len(list) > 1
    THEN {<<[id |-> 1, photos |-> SubSeq(list, 1, 1)],
            [id |-> 2, photos |-> SubSeq(list, 2, Len(list))]>>}
    ELSE {}

\* the load effect of AnalysisPage: redirect, or POST /api/analyze-photos
AnalysisMount ==
    /\ location = "analysis" /\ pagePc = "mounting"
    /\ IF sessionStorage["petTales_sessionId"] = Absent
          \/ sessionStorage["petTales_photos"] = Absent
       THEN Navigate("upload")
       ELSE pagePc' = "analyzing" /\ UNCHANGED location
    /\ selectedTheme' = Absent
    /\ UploadMounted
    /\ UNCHANGED <<sessionStorage, quota, flowStage, visits, files, uuidCount, selections,
                   editorVars>>

\* analyzePhotos after the POST settled, with the then and catch of the effect
AnalyzeReturns(success) ==
    /\ location = "analysis" /\ pagePc = "analyzing"
    /\ IF success
       THEN \E found \in ThemesOf(sessionStorage["petTales_photos"].value) :
              LET stored == SetItems(sessionStorage,
                      << <<"petTales_analyzedPhotos", sessionStorage["petTales_photos"].value>>,
                         <<"petTales_themes", found>> >>, quota)
              IN /\ sessionStorage' = stored.store
                 /\ IF stored.thrown
                    THEN pagePc' = "failed" /\ UNCHANGED selectedTheme
                    ELSE pagePc' = "themes" /\ selectedTheme' = found[1]
       ELSE pagePc' = "failed" /\ UNCHANGED <<sessionStorage, selectedTheme>>
    /\ UNCHANGED <<quota, location, flowStage, visits, uploadVars, editorVars>>

\* handleThemeSelect, from a click on a theme card
HandleThemeSelect(j) ==
    /\ location = "analysis" /\ pagePc = "themes"
    /\ j \in DOMAIN sessionStorage["petTales_themes"].value
    /\ selectedTheme # sessionStorage["petTales_themes"].value[j]
    /\ selectedTheme' = sessionStorage["petTales_themes"].value[j]
    /\ UNCHANGED <<sessionStorage, quota, location, pagePc, flowStage, visits, uploadVars,
                   editorVars>>

\* handleContinue of AnalysisPage; a setItem that throws ends the handler
AnalysisContinue ==
    /\ location = "analysis" /\ pagePc = "themes"
    /\ selectedTheme # Absent
    /\ LET stored == SetItems(sessionStorage,
                        << <<"petTales_selectedTheme", selectedTheme>> >>, quota)
       IN /\ sessionStorage' = stored.store
          /\ IF stored.thrown
             THEN UNCHANGED <<location, pagePc, flowStage>>
             ELSE /\ Navigate("story-editor")
                  /\ flowStage' = IF flowStage = 1 THEN 2 ELSE flowStage
    /\ UNCHANGED <<quota, visits, uploadVars, selectedTheme, editorVars>>

----------------------------------------------------------------------------
(* app/story-editor/page.tsx *)

\* response.data.story of a successful POST /api/generate-story
GeneratedStories ==
    {[title |-> <<"a">>, pages |-> <<"g">>],
     [title |-> <<"a", "b">>, pages |-> <<"g", "g">>]}

\* the texts typed into a page's textarea
PageTexts == {"", "x"}

\* { ...story, [field]: value }, story being null or an object
StoryWith(story, field, value) ==
    IF story = Absent THEN [f \in {field} |-> value]
    ELSE [f \in DOMAIN story \cup {field} |-> IF f = field THEN value ELSE story[f]]

\* the instance is unmounted: its POSTs go on, its state is gone
EditorLeft ==
    /\ orphaned' = orphaned + generating
    /\ generating' = 0
    /\ editorStory' = Absent /\ title' = <<>> /\ pages' = <<>> /\ lastEdit' = "none"

\* the load effect of StoryEditorPage: redirect, the cached story, or a POST
EditorMount ==
    /\ location = "story-editor" /\ pagePc = "mounting"
    /\ orphaned < MaxGenerating
    /\ lastEdit' = "none"
    /\ IF sessionStorage["petTales_selectedTheme"] = Absent
          \/ sessionStorage["petTales_petInfo"] = Absent
       THEN /\ Navigate("upload")
            /\ UNCHANGED <<editorStory, title, pages, generating>>
       ELSE IF sessionStorage["petTales_story"] # Absent
       THEN LET loadedStory == sessionStorage["petTales_story"].value
            IN /\ editorStory' = loadedStory
               /\ title' = loadedStory.title
               /\ IF "pages" \in DOMAIN loadedStory
                  THEN pages' = loadedStory.pages /\ pagePc' = "editing"
                  ELSE pages' = <<>> /\ pagePc' = "crashed"
               /\ UNCHANGED <<location, generating>>
       ELSE /\ generating' = 1
            /\ pagePc' = "loading"
            /\ UNCHANGED <<location, editorStory, title, pages>>
    /\ UploadMounted
    /\ UNCHANGED <<sessionStorage, quota, flowStage, visits, files, uuidCount, selections,
                   selectedTheme, orphaned>>

\* generateStory after its POST settled: of the mounted instance, or of one
\* that was unmounted, whose state updates are dropped
GenerateReturns(mounted, success) ==
    /\ IF mounted THEN generating > 0 ELSE orphaned > 0
    /\ generating' = IF mounted THEN generating - 1 ELSE generating
    /\ orphaned' = IF mounted THEN orphaned ELSE orphaned - 1
    /\ IF success
       THEN \E generatedStory \in GeneratedStories :
              /\ sessionStorage' =
                    SetItems(sessionStorage, << <<"petTales_story", generatedStory>> >>,
                             quota).store
              /\ IF mounted
                 THEN /\ editorStory' = generatedStory
                      /\ title' = generatedStory.title
                      /\ pages' = generatedStory.pages
                      /\ lastEdit' = "generated"
                 ELSE UNCHANGED <<editorStory, title, pages, lastEdit>>
              /\ flowStage' = IF flowStage = 2 THEN 3 ELSE flowStage
       ELSE UNCHANGED <<sessionStorage, editorStory, title, pages, lastEdit, flowStage>>
    /\ pagePc' = IF mounted THEN "editing" ELSE pagePc
    /\ UNCHANGED <<quota, location, visits, uploadVars, selectedTheme>>

\* handleTitleChange: the title after a key was typed or deleted
HandleTitleChange(newTitle) ==
    /\ location = "story-editor" /\ pagePc = "editing"
    /\ \/ Len(title) < MaxTitleLen /\ newTitle = Append(title, "c")
       \/ title # <<>> /\ newTitle = SubSeq(title, 1, Len(title) - 1)
    /\ title' = newTitle
    /\ editorStory' = StoryWith(editorStory, "title", newTitle)
    /\ sessionStorage' =
          SetItems(sessionStorage, << <<"petTales_story", editorStory'>> >>, quota).store
    /\ lastEdit' = "title"
    /\ UNCHANGED <<quota, location, pagePc, flowStage, visits, uploadVars, selectedTheme,
                   pages, generating, orphaned>>

\* handlePageTextChange
HandlePageTextChange(index, newText) ==
    /\ location = "story-editor" /\ pagePc = "editing"
    /\ index \in DOMAIN pages
    /\ pages[index] # newText
    /\ pages' = [pages EXCEPT ![index] = newText]
    /\ editorStory' = StoryWith(editorStory, "pages", pages')
    /\ sessionStorage' =
          SetItems(sessionStorage, << <<"petTales_story", editorStory'>> >>, quota).store
    /\ lastEdit' = "page"
    /\ UNCHANGED <<quota, location, pagePc, flowStage, visits, uploadVars, selectedTheme,
                   title, generating, orphaned>>

\* handleRegenerateStory up to the await of generateStory
HandleRegenerateStory ==
    /\ location = "story-editor" /\ pagePc = "editing"
    /\ generating + orphaned < MaxGenerating
    /\ generating' = generating + 1
    /\ UNCHANGED <<sessionStorage, quota, location, pagePc, flowStage, visits, uploadVars,
                   selectedTheme, editorStory, title, pages, orphaned, lastEdit>>

\* handleContinue of StoryEditorPage
EditorContinue ==
    /\ location = "story-editor" /\ pagePc = "editing"
    /\ title # <<>>
    /\ \A k \in DOMAIN pages : pages[k] # ""
    /\ LET stored == SetItems(sessionStorage,
                        << <<"petTales_story", [title |-> title, pages |-> pages]>> >>, quota)
       IN /\ sessionStorage' = stored.store
          /\ IF stored.thrown
             THEN UNCHANGED <<location, pagePc, editorVars>>
             ELSE Navigate("book-preview") /\ EditorLeft
    /\ UNCHANGED <<quota, flowStage, visits, uploadVars, selectedTheme>>

----------------------------------------------------------------------------
(* app/book-preview/page.tsx, the load effect; the buttons that navigate *)

\* the load effect of BookPreviewPage: redirect, or the preview is shown
PreviewMount ==
    /\ location = "book-preview" /\ pagePc = "mounting"
    /\ IF sessionStorage["petTales_story"] = Absent
          \/ sessionStorage["petTales_selectedTheme"] = Absent
       THEN Navigate("upload")
       ELSE pagePc' = "shown" /\ UNCHANGED location
    /\ UploadMounted
    /\ UNCHANGED <<sessionStorage, quota, flowStage, visits, files, uuidCount, selections,
                   selectedTheme, editorVars>>

\* the buttons whose handler is router.push: back to /upload from the analysis
\* page, to /analysis from the editor, to /story-editor from the preview
PushButton ==
    /\ \/ location = "analysis" /\ pagePc \in {"themes", "failed"} /\ Navigate("upload")
       \/ location = "story-editor" /\ pagePc = "editing" /\ Navigate("analysis")
       \/ location = "book-preview" /\ pagePc = "shown" /\ Navigate("story-editor")
    /\ IF location = "story-editor" THEN EditorLeft ELSE UNCHANGED editorVars
    /\ UNCHANGED <<sessionStorage, quota, flowStage, visits, uploadVars, selectedTheme>>

\* the user enters the URL of a page in the tab: the document is replaced,
\* so what the pages had in flight ends with it; session storage stays
Visit(path) ==
    /\ visits < MaxVisits
    /\ visits' = visits + 1
    /\ Navigate(path)
    /\ editorStory' = Absent /\ title' = <<>> /\ pages' = <<>> /\ lastEdit' = "none"
    /\ generating' = 0 /\ orphaned' = 0
    /\ UNCHANGED <<sessionStorage, quota, flowStage, uploadVars, selectedTheme>>

----------------------------------------------------------------------------
(* lib/services/openai-service.ts, analyzeImageWithVision *)

\* message.content of a reply, as its parts in order. A part is text outside
\* a fence, a JSON object outside a fence, or a block between ``` fences that
\* holds text, a JSON object followed by white space, or a JSON object that
\* ends at the closing fence. A part mentions a key as "<key>": "<value>" with
\* a value, with the value "", or not at all ("missing").
VisionReplies ==
    LET fieldMaps ==
            {[petType |-> "missing", location |-> "missing", activity |-> "missing"],
             [petType |-> "", location |-> "", activity |-> ""],
             [petType |-> "cat", location |-> "park", activity |-> "running"],
             [petType |-> "", location |-> "park", activity |-> "missing"],
             [petType |-> "cat", location |-> "missing", activity |-> ""]}
        replyParts ==
            [kind : {"text", "json", "blockText", "blockJson", "blockJsonTight"},
             fields : fieldMaps]
    IN UNION {[1..n -> replyParts] : n \in 1..MaxReplyParts}

\* lines 418-428: the first fenced block, or else the whole content, is what
\* JSON.parse gets
ParsesAsJson(reply) ==
    LET blocks == SelectSeq(reply, LAMBDA part :
                      part.kind \in {"blockText", "blockJson", "blockJsonTight"})
    IN IF blocks # <<>> THEN blocks[1].kind \in {"blockJson", "blockJsonTight"}
       ELSE Len(reply) = 1 /\ reply[1].kind = "json"

\* extractField(rawContent, field, defaultValue) || defaultValue: the patterns
\* take the first mention of the key; an empty value gives the default
ExtractField(reply, field, defaultValue) ==
    LET mentions == SelectSeq(reply, LAMBDA part : part.fields[field] # "missing")
    IN IF mentions = <<>> \/ mentions[1].fields[field] = "" THEN defaultValue
       ELSE mentions[1].fields[field]

\* lines 412-485: what analyzeImageWithVision returns for a model's reply
ParseReply(reply) ==
    LET blocks == SelectSeq(reply, LAMBDA part :
                      part.kind \in {"blockText", "blockJson", "blockJsonTight"})
        tight == SelectSeq(reply, LAMBDA part : part.kind = "blockJsonTight")
        \* { ...extractedData, ...jsonData } for one key
        spread(defaultValue, value) == IF value = "missing" THEN defaultValue ELSE value
    IN IF ParsesAsJson(reply)
       THEN IF blocks # <<>> THEN blocks[1].fields ELSE reply[1].fields
       ELSE IF tight # <<>>
       THEN [petType |-> spread("pet", tight[1].fields.petType),
             location |-> spread("unknown", tight[1].fields.location),
             activity |-> spread("posing", tight[1].fields.activity)]
       ELSE [petType |-> ExtractField(reply, "petType", "pet"),
             location |-> ExtractField(reply, "location", "unknown"),
             activity |-> ExtractField(reply, "activity", "posing")]

VisionIdle ==
    /\ visModel = 0 /\ visCalls = 0 /\ visReply = <<>> /\ visResult = NoResult
    /\ visPc = "idle"

\* the model called answers: its reply is parsed and returned
ModelReplies(reply) ==
    /\ visPc = "call"
    /\ visReply' = reply
    /\ visResult' = ParseReply(reply)
    /\ visPc' = "returned"
    /\ UNCHANGED <<visModel, visCalls>>

\* the model called fails: the next model is called, or after the last one
\* the function throws
ModelErrors ==
    /\ visPc = "call"
    /\ IF visModel < VisionModels
       THEN visModel' = visModel + 1 /\ visCalls' = visCalls + 1 /\ UNCHANGED visPc
       ELSE visPc' = "thrown" /\ UNCHANGED <<visModel, visCalls>>
    /\ UNCHANGED <<visReply, visResult>>

----------------------------------------------------------------------------
(* app/api/stylize-images/route.ts: the dimensions compressImage resizes to *)

\* const maxDimension = 1024
MaxDimension == 1024

\* resizeNeeded, width and height as they stand when Sharp(buffer) is about
\* to be resized.  A side of 0 stands for a width or height that the
\* metadata does not carry (metadata.width || 1024).  Math.round rounds a
\* positive quotient half up; the quotient side * (1024 / longer) is taken
\* as the exact rational.
TargetDimensions(metaWidth, metaHeight) ==
    LET Round(side, longer) == (2 * side * MaxDimension + longer) \div (2 * longer)
        width  == IF metaWidth = 0 THEN 1024 ELSE metaWidth
        height == IF metaHeight = 0 THEN 1024 ELSE metaHeight
    IN  IF width > MaxDimension \/ height > MaxDimension
        THEN IF width > height
             THEN [needed |-> TRUE, width |-> MaxDimension, height |-> Round(height, width)]
             ELSE [needed |-> TRUE, width |-> Round(width, height), height |-> MaxDimension]
        ELSE [needed |-> FALSE, width |-> width, height |-> height]

CompressIdle ==
    /\ metadata = [width |-> 0, height |-> 0]
    /\ resize = [needed |-> FALSE, width |-> 0, height |-> 0]
    /\ compressPc = "calculated"

\* const metadata = await Sharp(buffer).metadata()
CompressInit ==
    /\ metadata \in [width : {0, 1, 2, 3, 512, 1023, 1024, 1025, 1536, 2047, 2048, 2049, 3000,
                              4096, 4097},
                     height : {0, 1, 2, 3, 512, 1023, 1024, 1025, 1536, 2047, 2048, 2049, 3000,
                               4096, 4097}]
    /\ resize = [needed |-> FALSE, width |-> 0, height |-> 0]
    /\ compressPc = "metadata"

CalculateDimensions ==
    /\ compressPc = "metadata"
    /\ resize' = TargetDimensions(metadata.width, metadata.height)
    /\ compressPc' = "calculated"
    /\ UNCHANGED metadata

----------------------------------------------------------------------------
(* Specifications *)

InitGroup == GroupInit /\ AnalyzeIdle /\ StylizeIdle /\ StoryIdle /\ PreviewIdle /\ VariationIdle /\ TabIdle /\ VisionIdle /\ CompressIdle
NextGroup == Group /\ UNCHANGED <<analyzeVars, stylizeVars, storyVars, previewVars, variationVars, tabVars, visionVars, compressVars>>
SpecGroup == InitGroup /\ [][NextGroup]_vars

InitAnalyze == AnalyzeInit /\ GroupIdle /\ StylizeIdle /\ StoryIdle /\ PreviewIdle /\ VariationIdle /\ TabIdle /\ VisionIdle /\ CompressIdle
NextAnalyze ==
    \/ StartBatch /\ UNCHANGED <<groupVars, stylizeVars, storyVars, previewVars, variationVars, tabVars, visionVars, compressVars>>
    \/ \E p \in DOMAIN reqPhotos : VisionAnswers(p) /\ UNCHANGED <<groupVars, stylizeVars, storyVars, previewVars, variationVars, tabVars, visionVars, compressVars>>
    \/ \E p \in DOMAIN reqPhotos : VisionFails(p) /\ UNCHANGED <<groupVars, stylizeVars, storyVars, previewVars, variationVars, tabVars, visionVars, compressVars>>
    \/ BatchDone /\ UNCHANGED <<groupVars, stylizeVars, storyVars, previewVars, variationVars, tabVars, visionVars, compressVars>>
    \/ AnalyzeRespond /\ UNCHANGED <<groupVars, stylizeVars, storyVars, previewVars, variationVars, tabVars, visionVars, compressVars>>
SpecAnalyze == InitAnalyze /\ [][NextAnalyze]_vars

InitStylize == StylizeInit /\ GroupIdle /\ AnalyzeIdle /\ StoryIdle /\ PreviewIdle /\ VariationIdle /\ TabIdle /\ VisionIdle /\ CompressIdle
NextStylize ==
    \/ ProcessImage /\ UNCHANGED <<groupVars, analyzeVars, storyVars, previewVars, variationVars, tabVars, visionVars, compressVars>>
    \/ CompressDone /\ UNCHANGED <<groupVars, analyzeVars, storyVars, previewVars, variationVars, tabVars, visionVars, compressVars>>
    \/ \E p \in DOMAIN images : StylizeAnswers(p) /\ UNCHANGED <<groupVars, analyzeVars, storyVars, previewVars, variationVars, tabVars, visionVars, compressVars>>
    \/ \E p \in DOMAIN images : StylizeFails(p) /\ UNCHANGED <<groupVars, analyzeVars, storyVars, previewVars, variationVars, tabVars, visionVars, compressVars>>
    \/ StylizeTimeout /\ UNCHANGED <<groupVars, analyzeVars, storyVars, previewVars, variationVars, tabVars, visionVars, compressVars>>
    \/ DelayElapsed /\ UNCHANGED <<groupVars, analyzeVars, storyVars, previewVars, variationVars, tabVars, visionVars, compressVars>>
    \/ StylizeRespond /\ UNCHANGED <<groupVars, analyzeVars, storyVars, previewVars, variationVars, tabVars, visionVars, compressVars>>
SpecStylize == InitStylize /\ [][NextStylize]_vars

\* The steps of the route itself: synchronous code, the return of the local
\* compressImage, and the two timers (90 s and 2 s), which fire when their time
\* has passed.  Nothing is assumed about the service: it may never answer.
InitStylizeFair == InitStylize /\ Len(images) <= MaxFairImages
SpecStylizeFair ==
    /\ InitStylizeFair
    /\ [][NextStylize]_vars
    /\ WF_vars(/\ ProcessImage \/ CompressDone \/ StylizeTimeout \/ DelayElapsed
                  \/ StylizeRespond
               /\ UNCHANGED <<groupVars, analyzeVars, storyVars, previewVars, variationVars,
                              tabVars, visionVars, compressVars>>)

InitStory == StoryInit /\ GroupIdle /\ AnalyzeIdle /\ StylizeIdle /\ PreviewIdle /\ VariationIdle /\ TabIdle /\ VisionIdle /\ CompressIdle
NextStory ==
    \/ CallModel /\ UNCHANGED <<groupVars, analyzeVars, stylizeVars, previewVars, variationVars, tabVars, visionVars, compressVars>>
    \/ ModelAnswers /\ UNCHANGED <<groupVars, analyzeVars, stylizeVars, previewVars, variationVars, tabVars, visionVars, compressVars>>
    \/ ModelFails /\ UNCHANGED <<groupVars, analyzeVars, stylizeVars, previewVars, variationVars, tabVars, visionVars, compressVars>>
    \/ NoModelLeft /\ UNCHANGED <<groupVars, analyzeVars, stylizeVars, previewVars, variationVars, tabVars, visionVars, compressVars>>
SpecStory == InitStory /\ [][NextStory]_vars

InitPreview == PreviewInit /\ GroupIdle /\ AnalyzeIdle /\ StylizeIdle /\ StoryIdle /\ VariationIdle /\ TabIdle /\ VisionIdle /\ CompressIdle
NextPreview ==
    \/ \E st \in ButtonStyles \cup {"original"} :
          HandleStyleChange(st) /\ UNCHANGED <<groupVars, analyzeVars, stylizeVars, storyVars, variationVars, tabVars, visionVars, compressVars>>
    \/ \E post \in pendingPosts :
          PostSucceeds(post) /\ UNCHANGED <<groupVars, analyzeVars, stylizeVars, storyVars, variationVars, tabVars, visionVars, compressVars>>
    \/ \E post \in pendingPosts :
          PostFails(post) /\ UNCHANGED <<groupVars, analyzeVars, stylizeVars, storyVars, variationVars, tabVars, visionVars, compressVars>>
    \/ Remount /\ UNCHANGED <<groupVars, analyzeVars, stylizeVars, storyVars, variationVars, tabVars, visionVars, compressVars>>
SpecPreview == InitPreview /\ [][NextPreview]_vars

InitVariation ==
    VariationInit /\ GroupIdle /\ AnalyzeIdle /\ StylizeIdle /\ StoryIdle /\ PreviewIdle
    /\ TabIdle /\ VisionIdle /\ CompressIdle
NextVariation ==
    \/ \E r \in 1..MaxVarRequests :
          VarBegin(r) /\ UNCHANGED <<groupVars, analyzeVars, stylizeVars, storyVars, previewVars, tabVars, visionVars, compressVars>>
    \/ \E r \in 1..MaxVarRequests :
          VarValidate(r) /\ UNCHANGED <<groupVars, analyzeVars, stylizeVars, storyVars, previewVars, tabVars, visionVars, compressVars>>
    \/ \E r \in 1..MaxVarRequests :
          VarSharpDone(r) /\ UNCHANGED <<groupVars, analyzeVars, stylizeVars, storyVars, previewVars, tabVars, visionVars, compressVars>>
    \/ \E r \in 1..MaxVarRequests, outcome \in ApiOutcomes :
          VariationSettles(r, outcome)
          /\ UNCHANGED <<groupVars, analyzeVars, stylizeVars, storyVars, previewVars, tabVars, visionVars, compressVars>>
    \/ \E r \in 1..MaxVarRequests, outcome \in ApiOutcomes :
          GenerationSettles(r, outcome)
          /\ UNCHANGED <<groupVars, analyzeVars, stylizeVars, storyVars, previewVars, tabVars, visionVars, compressVars>>
SpecVariation == InitVariation /\ [][NextVariation]_vars

InitUpload ==
    TabInit(UploadFiles) /\ GroupIdle /\ AnalyzeIdle /\ StylizeIdle /\ StoryIdle /\ PreviewIdle
    /\ VariationIdle /\ VisionIdle /\ CompressIdle
NextUpload ==
    \/ \E n \in 0..MaxSelected :
          HandlePhotosSelected(n)
          /\ UNCHANGED <<groupVars, analyzeVars, stylizeVars, storyVars, previewVars, variationVars,
                         visionVars, compressVars>>
    \/ \E name \in PetNames :
          HandlePetName(name)
          /\ UNCHANGED <<groupVars, analyzeVars, stylizeVars, storyVars, previewVars, variationVars,
                         visionVars, compressVars>>
    \/ HandleSubmit
          /\ UNCHANGED <<groupVars, analyzeVars, stylizeVars, storyVars, previewVars, variationVars,
                         visionVars, compressVars>>
    \/ \E outcome \in ConvertOutcomes :
          ConvertPhoto(outcome)
          /\ UNCHANGED <<groupVars, analyzeVars, stylizeVars, storyVars, previewVars, variationVars,
                         visionVars, compressVars>>
    \/ UploadMount
          /\ UNCHANGED <<groupVars, analyzeVars, stylizeVars, storyVars, previewVars, variationVars,
                         visionVars, compressVars>>
    \/ Visit("upload")
          /\ UNCHANGED <<groupVars, analyzeVars, stylizeVars, storyVars, previewVars, variationVars,
                         visionVars, compressVars>>
SpecUpload == InitUpload /\ [][NextUpload]_vars

InitTab ==
    TabInit(FlowFiles) /\ GroupIdle /\ AnalyzeIdle /\ StylizeIdle /\ StoryIdle /\ PreviewIdle
    /\ VariationIdle /\ VisionIdle /\ CompressIdle
NextTab ==
    \/ \E n \in 0..MaxSelected :
          HandlePhotosSelected(n)
          /\ UNCHANGED <<groupVars, analyzeVars, stylizeVars, storyVars, previewVars, variationVars,
                         visionVars, compressVars>>
    \/ \E name \in PetNames :
          HandlePetName(name)
          /\ UNCHANGED <<groupVars, analyzeVars, stylizeVars, storyVars, previewVars, variationVars,
                         visionVars, compressVars>>
    \/ HandleSubmit
          /\ UNCHANGED <<groupVars, analyzeVars, stylizeVars, storyVars, previewVars, variationVars,
                         visionVars, compressVars>>
    \/ \E outcome \in ConvertOutcomes :
          ConvertPhoto(outcome)
          /\ UNCHANGED <<groupVars, analyzeVars, stylizeVars, storyVars, previewVars, variationVars,
                         visionVars, compressVars>>
    \/ UploadMount
          /\ UNCHANGED <<groupVars, analyzeVars, stylizeVars, storyVars, previewVars, variationVars,
                         visionVars, compressVars>>
    \/ AnalysisMount
          /\ UNCHANGED <<groupVars, analyzeVars, stylizeVars, storyVars, previewVars, variationVars,
                         visionVars, compressVars>>
    \/ \E success \in BOOLEAN :
          AnalyzeReturns(success)
          /\ UNCHANGED <<groupVars, analyzeVars, stylizeVars, storyVars, previewVars, variationVars,
                         visionVars, compressVars>>
    \/ \E j \in 1..2 :
          HandleThemeSelect(j)
          /\ UNCHANGED <<groupVars, analyzeVars, stylizeVars, storyVars, previewVars, variationVars,
                         visionVars, compressVars>>
    \/ AnalysisContinue
          /\ UNCHANGED <<groupVars, analyzeVars, stylizeVars, storyVars, previewVars, variationVars,
                         visionVars, compressVars>>
    \/ EditorMount
          /\ UNCHANGED <<groupVars, analyzeVars, stylizeVars, storyVars, previewVars, variationVars,
                         visionVars, compressVars>>
    \/ \E mounted \in BOOLEAN, success \in BOOLEAN :
          GenerateReturns(mounted, success)
          /\ UNCHANGED <<groupVars, analyzeVars, stylizeVars, storyVars, previewVars, variationVars,
                         visionVars, compressVars>>
    \/ \E newTitle \in {SubSeq(title, 1, Len(title) - 1), Append(title, "c")} :
          HandleTitleChange(newTitle)
          /\ UNCHANGED <<groupVars, analyzeVars, stylizeVars, storyVars, previewVars, variationVars,
                         visionVars, compressVars>>
    \/ \E index \in DOMAIN pages, newText \in PageTexts :
          HandlePageTextChange(index, newText)
          /\ UNCHANGED <<groupVars, analyzeVars, stylizeVars, storyVars, previewVars, variationVars,
                         visionVars, compressVars>>
    \/ HandleRegenerateStory
          /\ UNCHANGED <<groupVars, analyzeVars, stylizeVars, storyVars, previewVars, variationVars,
                         visionVars, compressVars>>
    \/ EditorContinue
          /\ UNCHANGED <<groupVars, analyzeVars, stylizeVars, storyVars, previewVars, variationVars,
                         visionVars, compressVars>>
    \/ PreviewMount
          /\ UNCHANGED <<groupVars, analyzeVars, stylizeVars, storyVars, previewVars, variationVars,
                         visionVars, compressVars>>
    \/ PushButton
          /\ UNCHANGED <<groupVars, analyzeVars, stylizeVars, storyVars, previewVars, variationVars,
                         visionVars, compressVars>>
    \/ \E path \in {"upload", "analysis", "story-editor", "book-preview"} :
          Visit(path)
          /\ UNCHANGED <<groupVars, analyzeVars, stylizeVars, storyVars, previewVars, variationVars,
                         visionVars, compressVars>>
SpecTab == InitTab /\ [][NextTab]_vars

InitVision ==
    /\ visModel = 1 /\ visCalls = 1 /\ visReply = <<>> /\ visResult = NoResult
    /\ visPc = "call"
    /\ GroupIdle /\ AnalyzeIdle /\ StylizeIdle /\ StoryIdle /\ PreviewIdle /\ VariationIdle
    /\ TabIdle /\ CompressIdle
NextVision ==
    \/ \E reply \in VisionReplies :
          ModelReplies(reply)
          /\ UNCHANGED <<groupVars, analyzeVars, stylizeVars, storyVars, previewVars, variationVars,
                         tabVars, compressVars>>
    \/ ModelErrors
          /\ UNCHANGED <<groupVars, analyzeVars, stylizeVars, storyVars, previewVars, variationVars,
                         tabVars, compressVars>>
SpecVision == InitVision /\ [][NextVision]_vars

InitCompress ==
    /\ CompressInit
    /\ GroupIdle /\ AnalyzeIdle /\ StylizeIdle /\ StoryIdle /\ PreviewIdle /\ VariationIdle
    /\ TabIdle /\ VisionIdle
NextCompress ==
    CalculateDimensions
        /\ UNCHANGED <<groupVars, analyzeVars, stylizeVars, storyVars, previewVars, variationVars,
                       tabVars, visionVars>>
SpecCompress == InitCompress /\ [][NextCompress]_vars

----------------------------------------------------------------------------
(* Properties of groupPhotosByTheme *)

Range(s) == {s[i] : i \in DOMAIN s}

\* how often the photo with this id occurs in the photos of a theme
TimesIn(theme, id) == Cardinality({k \in DOMAIN theme.photos : theme.photos[k].id = id})

RECURSIVE SumTimes(_, _)
SumTimes(ts, id) ==
    IF ts = <<>> THEN 0 ELSE TimesIn(Head(ts), id) + SumTimes(Tail(ts), id)

\* the group the priority rule gives a photo: holiday, else occasion, else location
GroupByPriority(p) ==
    IF p.holiday # Undefined /\ Len(p.holiday) > 0
    THEN <<"holiday", ToLowerCase(p.holiday)>>
    ELSE IF p.occasion # Undefined /\ Len(p.occasion) > 0
         THEN <<"occasion", ToLowerCase(p.occasion)>>
         ELSE <<"location", ToLowerCase(p.location)>>

\* C3: groupPhotosByTheme partitions the photos: every input photo is in
\* exactly one returned theme, no theme is empty, and the theme of a photo is
\* the one of its lower-cased holiday, else of its lower-cased occasion, else
\* of its lower-cased location (one theme per such group).
C3_Partition ==
    groupPc = "done" =>
        /\ \A i \in DOMAIN analyzedPhotos : SumTimes(themes, analyzedPhotos[i].id) = 1
        /\ \A t \in DOMAIN themes :
            /\ themes[t].photos # <<>>
            /\ \A k \in DOMAIN themes[t].photos :
                /\ themes[t].photos[k] \in Range(analyzedPhotos)
                /\ themes[t].key = GroupByPriority(themes[t].photos[k])
        /\ \A t, u \in DOMAIN themes : themes[t].key = themes[u].key => t = u

\* a call that returned a holiday theme holding two spellings of one holiday,
\* one of the photos having an occasion as well, beside another theme
C3_Witness ==
    /\ groupPc = "done"
    /\ Len(themes) >= 2
    /\ \E t \in DOMAIN themes :
        /\ themes[t].key[1] = "holiday"
        /\ \E k, l \in DOMAIN themes[t].photos :
            /\ themes[t].photos[k].holiday # themes[t].photos[l].holiday
            /\ Len(themes[t].photos[k].occasion) > 0

Occurrences(arr, v) == Cardinality({j \in DOMAIN arr : arr[j] = v})

\* the first index at which v has occurred n times in arr
FirstReaches(arr, v, n) ==
    CHOOSE i \in DOMAIN arr :
        /\ Cardinality({j \in 1..i : arr[j] = v}) = n
        /\ \A h \in 1..(i - 1) : Cardinality({j \in 1..h : arr[j] = v}) < n

\* v is a most common value of arr, and among the most common values the one
\* whose count reaches the maximum first
IsFirstMostCommon(arr, v) ==
    /\ v \in Range(arr)
    /\ \A w \in Range(arr) :
        /\ Occurrences(arr, w) <= Occurrences(arr, v)
        /\ Occurrences(arr, w) = Occurrences(arr, v) =>
              FirstReaches(arr, v, Occurrences(arr, v))
                 <= FirstReaches(arr, w, Occurrences(arr, v))

LowerAll(s) == [i \in DOMAIN s |-> ToLowerCase(s[i])]

\* C10: the mainActivity and the location of every returned theme are the
\* lower-cased value that is most common among the theme's photos, and on a
\* tie the value whose count first reaches the maximum in photo order.
C10_MostCommon ==
    groupPc = "done" =>
        \A t \in DOMAIN themes :
            /\ IsFirstMostCommon(
                 LowerAll([k \in DOMAIN themes[t].photos |-> themes[t].photos[k].activity]),
                 themes[t].mainActivity)
            /\ IsFirstMostCommon(
                 LowerAll([k \in DOMAIN themes[t].photos |-> themes[t].photos[k].location]),
                 themes[t].location)

\* a theme of four photos with activities x, y, Y, x: x and y tie at two, y
\* reaches two first and is chosen although x comes first
C10_Witness ==
    /\ groupPc = "done"
    /\ \E t \in DOMAIN themes :
        /\ Len(themes[t].photos) = 4
        /\ [k \in 1..4 |-> themes[t].photos[k].activity]
              = << <<120>>, <<121>>, <<89>>, <<120>> >>
        /\ themes[t].mainActivity = <<121>>

----------------------------------------------------------------------------
(* Properties of the analyze-photos endpoint *)

\* the batch of a photo when the photos are cut into consecutive pairs
PairOf(p) == (p - 1) \div 2

Started(p) == visionCall[p].state # "idle"

\* C1: photos are taken in consecutive batches of 2 in input order: at most
\* 2 vision calls are in flight, every photo before a started photo has been
\* started, and no photo of a later batch is started before every call of
\* the earlier batches has settled.
C1_BatchesOfTwo ==
    /\ Cardinality(InFlight) <= 2
    /\ \A p, q \in DOMAIN reqPhotos :
        /\ Started(p) /\ q < p => Started(q)
        /\ Started(p) /\ PairOf(q) < PairOf(p) => visionCall[q].state = "settled"
        /\ Started(p) /\ PairOf(q) = PairOf(p) => Started(q)

\* the two calls of the second batch are in flight together, one of them
\* already on its second model, after a first batch that made calls
C1_Witness ==
    /\ Len(reqPhotos) = 4
    /\ InFlight = {3, 4}
    /\ visionCall[3].model = 2
    /\ visionCall[1].model > 0
    /\ visionCall[2].state = "settled"

\* C15: analyzedPhotos of the response has one entry per photo of the
\* request, in the order of the request, and each entry has the id of its
\* photo and the photo's base64 value as originalImage, also when the analysis
\* result has properties id and originalImage of its own.
C15_OneEntryPerPhoto ==
    analyzePc = "done" =>
        /\ Len(analyzeResponse.analyzedPhotos) = Len(reqPhotos)
        /\ \A p \in DOMAIN reqPhotos :
            /\ analyzeResponse.analyzedPhotos[p].id = reqPhotos[p].id
            /\ analyzeResponse.analyzedPhotos[p].originalImage = reqPhotos[p].base64

\* a response for three photos: two analysis results, which have an id of
\* their own, around a photo without image data
C15_Witness ==
    /\ analyzePc = "done"
    /\ Len(reqPhotos) = 3
    /\ analyzeResponse.analyzedPhotos[1].petType = "dog"
    /\ reqPhotos[2].base64.kind = "missing"
    /\ analyzeResponse.analyzedPhotos[3].petType = "dog"
    /\ reqPhotos[3].base64.kind = "dataurl"

\* the photos whose analysis failed: the data is missing or too short, or
\* every model of the chain failed
FailedPhotos ==
    {p \in DOMAIN reqPhotos :
        InvalidImageData(reqPhotos[p]) \/ visionCall[p].failed = VisionModels}

\* C16: a photo whose analysis fails gets an entry with an error message and
\* the values petType "pet", location "unknown", activity "posing"; the
\* entries of the other photos are the results of their own analyses; and the
\* request ends with the response success and the themes of the entries.
C16_FailureIsolated ==
    /\ analyzePc \in {"loop", "await", "done"}
    /\ analyzePc = "done" =>
        /\ analyzeResponse.status = 200 /\ analyzeResponse.success
        /\ analyzeResponse.themes = GroupPhotosByTheme(analyzeResponse.analyzedPhotos)
        /\ DOMAIN analyzeResponse.analyzedPhotos = DOMAIN reqPhotos
        /\ \A p \in DOMAIN reqPhotos :
            LET entry == analyzeResponse.analyzedPhotos[p]
            IN IF p \in FailedPhotos
               THEN /\ entry.error # "none"
                    /\ entry.petType = "pet"
                    /\ entry.location = <<117, 110, 107, 110, 111, 119, 110>>
                    /\ entry.activity = <<112, 111, 115, 105, 110, 103>>
               ELSE /\ entry.error = "none"
                    /\ entry.petType = "dog"
                    /\ entry.location = <<80>>

\* a response for four photos: one with data too short, one whose models all
\* failed, and two analysed, one of them after a model failure
C16_Witness ==
    /\ analyzePc = "done"
    /\ Len(reqPhotos) = 4
    /\ InvalidImageData(reqPhotos[1])
    /\ visionCall[2].failed = 1 /\ 2 \notin FailedPhotos
    /\ visionCall[3].failed = VisionModels
    /\ 4 \notin FailedPhotos
    /\ Len(analyzeResponse.themes) > 0

\* C17: analyzePhoto never rejects: a call that was made settles with a
\* result, and when every model of the chain failed the result is the
\* fallback petType "pet", location "unknown", activity "posing" with the
\* message of the error in its error field.
C17_AnalyzePhotoResolves ==
    \A p \in DOMAIN visionCall :
        /\ visionCall[p].state \in {"idle", "inflight", "settled"}
        /\ visionCall[p].state = "settled" => visionCall[p].result # NoResult
        /\ visionCall[p].failed = VisionModels =>
            /\ visionCall[p].state = "settled"
            /\ visionCall[p].result.petType = "pet"
            /\ visionCall[p].result.location = <<117, 110, 107, 110, 111, 119, 110>>
            /\ visionCall[p].result.activity = <<112, 111, 115, 105, 110, 103>>
            /\ visionCall[p].result.error = "All models failed for vision analysis"

\* the chain of one photo has failed on every model while the call of the
\* other photo of the batch is still in flight
C17_Witness ==
    /\ Len(reqPhotos) >= 2
    /\ visionCall[1].failed = VisionModels
    /\ visionCall[1].state = "settled"
    /\ visionCall[2].state = "inflight"

----------------------------------------------------------------------------
(* Properties of the stylize-images endpoint *)

\* the call to stylizeImage for image p has been made
Issued(p) == stylizeCall[p].state # "idle"

\* C2: images are processed one after another in input order: the call for
\* an image is issued only when every earlier image has its entry, and at
\* most one stylization call is in flight at any moment, also after a
\* timeout.
C2_OneCallAtATime ==
    /\ \A p \in DOMAIN images : Issued(p) => Len(stylizedImages) >= p - 1
    /\ Cardinality(StylizeInFlight) <= 1

\* C6: between any two consecutive images a delay is waited before the later
\* image's stylization call, whether the earlier image succeeded or failed,
\* and no delay follows the last image.
C6_DelayBetweenImages ==
    /\ \A p \in DOMAIN images : p > 1 /\ Issued(p) => delayBefore[p]
    /\ stylizePc = "delay" => imgIndex + 1 < Len(images)

\* C8: the request sent to the image-generation service for an image carries
\* the image data that was handed to stylizeImage.
C8_CallCarriesImage ==
    \A p \in DOMAIN images :
        Issued(p) =>
            /\ "image" \in DOMAIN stylizeCall[p].request
            /\ stylizeCall[p].request.image = stylizeCall[p].handed

\* C9 as stated: every image handed to stylizeImage has a base64 length of at
\* most MAX_BASE64_LENGTH (4 MB x 1.37 = 5746196.48).
C9_AlwaysWithinLimit ==
    \A p \in DOMAIN images :
        Issued(p) => 100 * stylizeCall[p].handed.len <= 137 * 4194304

\* C9 amended: every image handed to stylizeImage has a base64 length of at
\* most MAX_BASE64_LENGTH, except an over-limit image whose compression
\* failed, which is handed over unchanged; an over-limit image that Sharp can
\* read is handed over as the compressed JPEG.
C9_WithinLimitUnlessCompressionFailed ==
    \A p \in DOMAIN images :
        Issued(p) =>
            LET h == stylizeCall[p].handed
                b == images[p].base64
            IN  /\ h.of = images[p].id
                /\ \/ 100 * h.len <= 137 * 4194304
                   \/ ~b.decodable /\ h.form = "original" /\ h.len = b.dataLen
                /\ 100 * b.dataLen > 137 * 4194304 /\ b.decodable => h.form = "jpeg"

\* an over-limit image went out compressed and another, which Sharp could not
\* read, went out unchanged
C9_Witness ==
    \E p, q \in DOMAIN images :
        /\ Issued(p) /\ Issued(q)
        /\ 100 * images[p].base64.dataLen > 137 * 4194304
        /\ stylizeCall[p].handed.form = "jpeg"
        /\ 100 * stylizeCall[q].handed.len > 137 * 4194304

\* C18: the response has one entry per image of the request, in the order of
\* the request and with the image's id; an entry has a stylizedImage that
\* starts with a data:image prefix, or a null stylizedImage and an error
\* message; stats.total is the number of images, stats.successful the number
\* of entries with a stylized image, and successful + failed = total.
C18_EntriesAndStats ==
    stylizePc = "done" =>
        LET entries == stylizeResponse.stylizedImages
            stats == stylizeResponse.stats
            stylized == {p \in DOMAIN entries : entries[p].stylizedImage # [null |-> TRUE]}
        IN /\ Len(entries) = Len(images)
           /\ \A p \in DOMAIN entries :
               /\ entries[p].id = images[p].id
               /\ IF p \in stylized
                  THEN /\ entries[p].stylizedImage.text # <<>>
                       /\ entries[p].stylizedImage.text[1] \in
                            {"data:image/png;base64,", "data:image/jpeg;base64,"}
                  ELSE entries[p].error # "none"
           /\ stats.total = Len(images)
           /\ stats.successful = Cardinality(stylized)
           /\ stats.successful + stats.failed = stats.total

\* a response for three images: base64 text that got the prefix, a data URL
\* that was kept, and an answer without b64_json that was recorded as failed
C18_Witness ==
    /\ stylizePc = "done"
    /\ Len(images) = 3
    /\ stylizeResponse.stylizedImages[1].stylizedImage = [text |-> <<"data:image/jpeg;base64,", "iVBORw0KGgo">>]
    /\ stylizeResponse.stylizedImages[2].stylizedImage = [text |-> <<"data:image/png;base64,", "iVBORw0KGgo">>]
    /\ stylizeResponse.stylizedImages[3].stylizedImage = [null |-> TRUE]
    /\ stylizeCall[3].state = "answered"
    /\ stylizeResponse.stats.successful = 2

\* C19: the processing of an image ends without the service: when the timer
\* wins the race, the image gets a failed entry with the timed-out error and
\* the loop goes on to the next image; every image whose call was issued gets
\* its entry, and every request produces its response.
C19_TimeoutThenResponse ==
    /\ [][(/\ stylizePc = "await"
           /\ stylizePc' # "await"
           /\ stylizeCall'[imgIndex + 1].state = "inflight")
          => /\ stylizedImages' =
                  Append(stylizedImages,
                         [id |-> images[imgIndex + 1].id,
                          originalImage |-> images[imgIndex + 1].base64,
                          stylizedImage |-> [null |-> TRUE],
                          error |-> "Stylization timed out after 90 seconds"])
             /\ imgIndex' = imgIndex + 1
             /\ stylizePc' = "loop"]_vars
    /\ \A p \in 1..MaxFairImages + 1 :
          (p \in DOMAIN images /\ stylizePc = "await" /\ imgIndex + 1 = p)
              ~> (Len(stylizedImages) >= p)
    /\ <>(stylizePc = "done" /\ stylizeResponse.status = 200)

\* a response for two images after the timer won the race for the first one,
\* whose call the service never answered
C19_Witness ==
    /\ stylizePc = "done"
    /\ Len(images) = 2
    /\ stylizeCall[1].state = "inflight"
    /\ stylizedImages[1].error = "Stylization timed out after 90 seconds"
    /\ stylizedImages[2].stylizedImage # [null |-> TRUE]

----------------------------------------------------------------------------
(* Properties of the model chains *)

\* C4: generateStoryWithFallback calls the models in the order gpt-4o,
\* gpt-4-turbo, gpt-4, gpt-3.5-turbo: the k-th call goes to the k-th model (so
\* no model is called twice), a call is made only when every earlier call has
\* failed, and so none is made after a model has answered.
C4_FixedOrder ==
    storyFn = "generateStory" =>
        /\ Len(storyCalls) <= 4
        /\ \A k \in DOMAIN storyCalls :
            /\ storyCalls[k].model = <<"gpt-4o", "gpt-4-turbo", "gpt-4", "gpt-3.5-turbo">>[k]
            /\ k < Len(storyCalls) => storyCalls[k].outcome = "failed"
        /\ storyPc \in {"returned", "thrown"} =>
              \A k \in DOMAIN storyCalls : storyCalls[k].outcome # "pending"

\* generateStoryWithFallback returned the answer of the fourth model after the
\* first three had failed
C4_Witness ==
    /\ storyFn = "generateStory"
    /\ storyPc = "returned"
    /\ Len(storyCalls) = 4
    /\ storyCalls[4].model = "gpt-3.5-turbo"
    /\ storyCalls[4].outcome = "answered"

\* C20: in both functions a failure whose message contains neither '404'
\* nor 'not supported' is the last call of the chain and is rethrown to the
\* caller; a failure whose message contains one of the two is not rethrown:
\* the function goes on to the model after it, or past the last model.
C20_RethrowUnlessModelRelated ==
    \A k \in DOMAIN storyCalls :
        storyCalls[k].outcome = "failed" =>
            LET message == storyCalls[k].message
                has404 == \E j \in DOMAIN message : message[j] = "404"
                hasNotSupported ==
                    \E j \in DOMAIN message :
                        /\ j < Len(message)
                        /\ message[j] = "not" /\ message[j + 1] = "supported"
            IN IF ~has404 /\ ~hasNotSupported
               THEN /\ k = Len(storyCalls)
                    /\ storyPc = "thrown"
                    /\ storyResult = [error |-> message]
               ELSE /\ storyPc # "thrown" \/ k < Len(storyCalls)
                    /\ k = Len(storyCalls) /\ storyPc = "loop" => modelIdx = k

\* editStoryStyleWithFallback went past a 404 and a 'not supported' failure and
\* was ended by the rate-limit failure of the third model
C20_Witness ==
    /\ storyFn = "editStory"
    /\ storyPc = "thrown"
    /\ Len(storyCalls) = 3
    /\ storyCalls[1].message = <<"404", "model", "not", "found">>
    /\ storyCalls[2].message = <<"model", "is", "not", "supported">>
    /\ storyCalls[3].message = <<"429", "rate", "limit", "reached">>

\* C21: when every model of the chain has failed with a message that
\* contains '404' or 'not supported', the function does not throw:
\* generateStoryWithFallback returns a story with the title made of the pet's
\* name and the theme's name and with three pages, and
\* editStoryStyleWithFallback returns the story text it was given.
C21_AllFailedFallback ==
    (/\ Len(storyCalls) = 4
     /\ \A k \in DOMAIN storyCalls :
           /\ storyCalls[k].outcome = "failed"
           /\ \/ storyCalls[k].message[1] = "404"
              \/ storyCalls[k].message = <<"model", "is", "not", "supported">>)
    => /\ storyPc \in {"loop", "returned"}
       /\ storyPc = "returned" =>
            IF storyFn = "editStory"
            THEN storyResult = [text |-> storyArgs.storyText]
            ELSE /\ storyResult.title[1] = storyArgs.petName
                 /\ storyArgs.themeName # "" => storyResult.title[2] = storyArgs.themeName
                 /\ Len(storyResult.pages) = 3

\* generateStoryWithFallback returned its minimal story for a named theme
\* after four model-related failures
C21_Witness ==
    /\ storyFn = "generateStory"
    /\ storyPc = "returned"
    /\ Len(storyCalls) = 4
    /\ storyCalls[4].outcome = "failed"
    /\ storyCalls[4].message = <<"model", "is", "not", "supported">>
    /\ storyArgs.themeName = "Beach Day"
    /\ storyResult.title = <<"Rex", "Beach Day">>

----------------------------------------------------------------------------
(* Properties of the book-preview page *)

\* C5: a run of handleStyleChange for a style whose POST has returned success
\* (with a non-empty list) to this page instance issues no POST and leaves
\* the stored images of every style unchanged; a run for 'original' never
\* issues a POST.
C5_NoRefetch ==
    [][clicks' # clicks =>
          /\ clicked' \in returnedOk =>
                /\ postsSent' = postsSent
                /\ pendingPosts' = pendingPosts
                /\ pageImages' = pageImages
          /\ clicked' = "original" =>
                postsSent' = postsSent /\ pendingPosts' = pendingPosts]_vars

\* a style was selected again after its POST had returned success, with one
\* POST issued in all
C5_Witness ==
    /\ clicked \in returnedOk
    /\ selectedStyle = clicked
    /\ clicks = 3
    /\ postsSent = 1
    /\ mountId = 1

----------------------------------------------------------------------------
(* Properties of the stylize-with-variation endpoint *)

\* C7: images.generate is called only after the request's createVariation call
\* failed or returned no image; a returned response has method 'variation'
\* exactly when the variation call produced the image and method 'generation'
\* exactly when the generation call produced it; when both calls failed the
\* response has success false, status 500 and both error messages.
C7_LinearFallback ==
    \A r \in DOMAIN varPc :
        /\ generationCalls[r] # "none" => variationCalls[r] \in {"noimage", "error"}
        /\ varPc[r] = "done" =>
              /\ varResponse[r].method = "variation" <=> variationCalls[r] = "image"
              /\ varResponse[r].method = "generation" <=>
                    (variationCalls[r] # "image" /\ generationCalls[r] = "image")
              /\ ( /\ variationCalls[r] \in {"noimage", "error"}
                   /\ generationCalls[r] \in {"noimage", "error"} ) =>
                    /\ varResponse[r].status = 500
                    /\ varResponse[r].success = FALSE
                    /\ varResponse[r].error =
                          <<"Failed to stylize image", ApiErrorMessage(variationCalls[r])>>
                    /\ varResponse[r].fallbackError = ApiErrorMessage(generationCalls[r])

\* C23: in the step in which a request returns its response, on whichever
\* path, the temporary directory of the request and the input file in it do
\* not exist.
C23_TempRemovedAtReturn ==
    [][\A r \in DOMAIN varPc :
          (varPc[r] # "done" /\ varPc'[r] = "done") =>
              /\ varResponse'[r] # [status |-> 0]
              /\ varStamp[r] \notin tempDirs'
              /\ varStamp[r] \notin tempFiles']_vars

\* two requests that began in the same millisecond and shared the directory
\* have both returned: the first with the variation's image, the second from
\* the catch of the generation call, whose cleanup found the file gone
C23_Witness ==
    /\ varPc = [r \in 1..Len(varPc) |-> "done"]
    /\ Len(varPc) >= 2
    /\ varStamp[1] = varStamp[2]
    /\ varResponse[1].method = "variation"
    /\ varResponse[2].status = 500
    /\ generationCalls[2] = "image"
    /\ tempDirs = {} /\ tempFiles = {}

----------------------------------------------------------------------------
(* Properties of the upload page *)

\* one {id, base64} entry for every photo of the selection that was converted,
\* in selection order
ConvertedEntries ==
    LET kept == SelectSeq([k \in DOMAIN outcomes |-> k], LAMBDA k : outcomes[k] # "skipped")
    IN [j \in DOMAIN kept |-> [id |-> selectedPhotos[kept[j]], base64 |-> outcomes[kept[j]]]]

\* a step of handleSubmit that navigates to /analysis
SubmitNavigates == location = "upload" /\ location' = "analysis" /\ visits' = visits

\* C11 as stated: when a submit navigates to /analysis, session storage holds a
\* fresh session id, the pet and owner info of the form, and under
\* petTales_photos one entry for every converted photo, in selection order.
C11_AllStored ==
    [][SubmitNavigates =>
          /\ uuidCount' = uuidCount + 1
          /\ sessionStorage'["petTales_sessionId"] = Item(uuidCount')
          /\ sessionStorage'["petTales_petInfo"] = Item([name |-> petName, type |-> "dog"])
          /\ sessionStorage'["petTales_ownerInfo"] = Item([name |-> ""])
          /\ sessionStorage'["petTales_photos"] = Item(ConvertedEntries')]_vars

\* C11, amended: the same, except that after the write of all converted photos
\* failed and more than 3 were converted, petTales_photos holds the first 3 of
\* them and the page says so.
C11_StoredOrReduced ==
    [][SubmitNavigates =>
          /\ uuidCount' = uuidCount + 1
          /\ sessionStorage'["petTales_sessionId"] = Item(uuidCount')
          /\ sessionStorage'["petTales_petInfo"] = Item([name |-> petName, type |-> "dog"])
          /\ sessionStorage'["petTales_ownerInfo"] = Item([name |-> ""])
          /\ IF uploadError' = ""
             THEN sessionStorage'["petTales_photos"] = Item(ConvertedEntries')
             ELSE /\ Len(ConvertedEntries') > 3
                  /\ sessionStorage'["petTales_photos"] = Item(SubSeq(ConvertedEntries', 1, 3))]_vars

\* a submit has navigated with one photo skipped and two stored
C11_Witness ==
    /\ location = "analysis" /\ pagePc = "mounting" /\ visits = 0
    /\ \E k \in DOMAIN outcomes : outcomes[k] = "skipped"
    /\ sessionStorage["petTales_photos"] # Absent
    /\ Len(ConvertedEntries) = 2
    /\ sessionStorage["petTales_photos"] = Item(ConvertedEntries)

\* the step in which the last conversion settles and handleSubmit runs to its
\* end, after the write of all converted photos to session storage has thrown
SubmitEndsAfterFailedWrite ==
    /\ isUploading /\ Len(outcomes) < Len(outcomes') /\ Len(outcomes') = Len(selectedPhotos)
    /\ ConvertedEntries' # <<>>
    /\ sessionStorage'["petTales_sessionId"] = Item(uuidCount + 1)
    /\ UsageOver([sessionStorage' EXCEPT !["petTales_photos"] = Item(ConvertedEntries')],
                 StorageKeys) > quota

\* C22 as stated: when the write of all photos fails, a submit with more than
\* 3 converted photos stores the first 3 and navigates to /analysis, a submit
\* with 3 or fewer does not navigate and shows an error, and the uploading
\* flag is false at the end of the submit.
C22_FirstThreeOrError ==
    [][SubmitEndsAfterFailedWrite =>
          /\ isUploading' = FALSE
          /\ IF Len(ConvertedEntries') > 3
             THEN /\ sessionStorage'["petTales_photos"] = Item(SubSeq(ConvertedEntries', 1, 3))
                  /\ location' = "analysis"
             ELSE /\ location' = "upload"
                  /\ uploadError' # ""]_vars

\* C22, amended: the same, except that with more than 3 converted photos the
\* write of the first 3 can fail as well; then the submit does not navigate,
\* shows the error and leaves petTales_photos as it was.
C22_FirstThreeIfTheyFit ==
    [][SubmitEndsAfterFailedWrite =>
          /\ isUploading' = FALSE
          /\ IF /\ Len(ConvertedEntries') > 3
                /\ UsageOver([sessionStorage' EXCEPT !["petTales_photos"] =
                                 Item(SubSeq(ConvertedEntries', 1, 3))], StorageKeys) <= quota
             THEN /\ sessionStorage'["petTales_photos"] = Item(SubSeq(ConvertedEntries', 1, 3))
                  /\ location' = "analysis"
                  /\ uploadError' =
                       "Only the first 3 photos could be processed due to storage limitations."
             ELSE /\ location' = "upload"
                  /\ uploadError' =
                       "Failed to process photos. Please try again with fewer or smaller photos."
                  /\ sessionStorage'["petTales_photos"] = sessionStorage["petTales_photos"]]_vars

\* a submit of four converted photos has ended on the upload page with the
\* error, nothing stored under petTales_photos, and the flag reset
C22_Witness ==
    /\ location = "upload" /\ pagePc = "shown" /\ visits = 0
    /\ ~isUploading
    /\ Len(outcomes) = 4 /\ Len(ConvertedEntries) = 4
    /\ uuidCount = 1
    /\ uploadError = "Failed to process photos. Please try again with fewer or smaller photos."
    /\ sessionStorage["petTales_photos"] = Absent

----------------------------------------------------------------------------
(* Properties of the page flow and of the story editor *)

\* C12: the book preview is shown only after an upload submit, a theme
\* selection and a successful story generation have happened, in that order.
C12_PreviewAfterGeneration ==
    (location = "book-preview" /\ pagePc = "shown") => flowStage = 3

\* C13: after a title edit, a page edit or a completed regeneration, the title
\* and pages of the story stored under petTales_story are those the editor
\* shows (a stored story without pages counting as one with no pages).
C13_StoredEqualsShown ==
    (location = "story-editor" /\ lastEdit \in {"title", "page", "generated"}) =>
        /\ sessionStorage["petTales_story"] # Absent
        /\ sessionStorage["petTales_story"].value.title = title
        /\ IF "pages" \in DOMAIN sessionStorage["petTales_story"].value
           THEN sessionStorage["petTales_story"].value.pages = pages
           ELSE pages = <<>>

----------------------------------------------------------------------------
(* Properties of analyzeImageWithVision *)

\* C14: when the reply of the model cannot be parsed as JSON, the function
\* returns without calling another model, and petType, location and activity
\* of the value returned are present and non-empty.
C14_ExtractionNeverEmpty ==
    visReply # <<>> =>
        /\ visPc = "returned"
        /\ ~ParsesAsJson(visReply) =>
              \A field \in {"petType", "location", "activity"} :
                  visResult[field] \notin {"missing", ""}

----------------------------------------------------------------------------
(* Properties of compressImage's target dimensions *)

\* C24: once compressImage has calculated its dimensions, an image with a
\* width or height above 1024 is resized so that its longer side is exactly
\* 1024 and its other side is round(side * 1024 / longer side), both sides
\* lying between 1 and 1024; an image with both sides at most 1024 is not
\* resized.
C24_TargetDimensions ==
    compressPc = "calculated" /\ metadata.width > 0 /\ metadata.height > 0 =>
        LET w == metadata.width
            h == metadata.height
            longer == IF w > h THEN w ELSE h
            other == IF w > h THEN h ELSE w
            rounded == (2 * other * 1024 + longer) \div (2 * longer)
        IN  IF w > 1024 \/ h > 1024
            THEN /\ resize.needed
                 /\ (w > h => resize.width = 1024 /\ resize.height = rounded)
                 /\ (w <= h => resize.height = 1024 /\ resize.width = rounded)
                 /\ resize.width \in 1..1024
                 /\ resize.height \in 1..1024
            ELSE ~resize.needed

\* The same statement for the images whose longer side is less than 2048
\* times the other one: there the rounded side is at least 1.
C24_ProportionateImages ==
    /\ compressPc = "calculated" /\ metadata.width > 0 /\ metadata.height > 0
    /\ metadata.width < 2048 * metadata.height
    /\ metadata.height < 2048 * metadata.width
    => IF metadata.width > 1024 \/ metadata.height > 1024
       THEN /\ resize.needed
            /\ resize.width \in 1..1024 /\ resize.height \in 1..1024
            /\ (resize.width = 1024 \/ resize.height = 1024)
            /\ (metadata.width > metadata.height => resize.width = 1024)
            /\ (metadata.width <= metadata.height => resize.height = 1024)
       ELSE ~resize.needed

\* A 4096 x 1 image has been through the calculation.
C24_Witness ==
    compressPc = "calculated" /\ metadata = [width |-> 4096, height |-> 1]

====
